---- MODULE Spec2Model ----
(***************************************************************************)
(* A model of md2mdocx.js: the Markdown block parser, the inline markup    *)
(* resolver, the changelog extractor, the Mermaid pre-rendering pass and   *)
(* the conversion of parsed elements into Word paragraphs.                 *)
(*                                                                         *)
(* A JavaScript string is a sequence of characters; a character is a       *)
(* one-character TLA+ string, except the few that the TLA+ lexer does not  *)
(* take in a string literal, which have a name (BT, the Japanese letters). *)
(***************************************************************************)
EXTENDS Integers, Sequences, FiniteSets, TLC

VARIABLES
  pc,                   \* where main() (or the function under test) stands
  markdownRaw,          \* main: the text read from the input file
  changelog,            \* main: the result of extractChangelog
  lines, pos, elements, \* MarkdownParser: this.lines, this.pos, this.elements
  iters,                \* number of iterations of parse()'s while loop so far
  files,                \* the file system: path -> "present" | "absent" | "unreadable"
  kroki,                \* the rendering service: the bodies it may answer with status 200
  mi,                   \* prerenderMermaidDiagrams: index of the for-of loop
  renderedMap,          \* prerenderMermaidDiagrams: the Map source -> Buffer | null
  requests,             \* renderMermaidToPng: every request made, with its promise
  numberConfigs,        \* main: numbering definitions
  ci,                   \* convertElements: index of the for-of loop
  children,             \* convertElements: the paragraphs emitted so far
  numberListRef,        \* convertElements: numbered list counter
  currentSectionIndent, \* convertElements: structural indent
  text, remaining, runs,\* parseInlineMarkup: argument, rest of the text, runs
  argv,                 \* process.argv.slice(2): the arguments of the command line
  configFile,           \* the settings file beside the input file: key -> value
  options               \* main: the result of parseArgs

vars == <<pc, markdownRaw, changelog, lines, pos, elements, iters, files, kroki,
          mi, renderedMap, requests, numberConfigs, ci, children,
          numberListRef, currentSectionIndent, text, remaining, runs, argv,
          configFile, options>>

-----------------------------------------------------------------------------
(* Characters and strings                                                  *)

BT == "BT"            \* the backtick character
NL == "\n"
WS == {" ", "\t"}     \* the characters of \s that the inputs use
Digits == {"0", "1", "2", "3", "4", "5", "6", "7", "8", "9"}
DigitSeq == <<"0", "1", "2", "3", "4", "5", "6", "7", "8", "9">>
Upper == <<"A", "B", "C", "D", "E", "F", "G", "H", "I", "J", "K", "L", "M",
           "N", "O", "P", "Q", "R", "S", "T", "U", "V", "W", "X", "Y", "Z">>
LowerCase == <<"a", "b", "c", "d", "e", "f", "g", "h", "i", "j", "k", "l", "m",
               "n", "o", "p", "q", "r", "s", "t", "u", "v", "w", "x", "y", "z">>

Min(S) == CHOOSE m \in S : \A n \in S : m <= n
Max(S) == CHOOSE m \in S : \A n \in S : m >= n

\* the i flag of a regular expression: compare letters without case
ToLower(c) ==
  IF \E k \in 1..26 : Upper[k] = c
  THEN LowerCase[CHOOSE k \in 1..26 : Upper[k] = c]
  ELSE c

\* s.slice(i - 1): the characters of s from the i-th (1-based) on
From(s, i) == SubSeq(s, i, Len(s))

\* p occurs in s at the 1-based index i
MatchAt(s, p, i) ==
  /\ i >= 1
  /\ i + Len(p) - 1 <= Len(s)
  /\ \A k \in 1..Len(p) : s[i + k - 1] = p[k]

\* the same under the i flag (p is given in lower case)
MatchAtCI(s, p, i) ==
  /\ i >= 1
  /\ i + Len(p) - 1 <= Len(s)
  /\ \A k \in 1..Len(p) : ToLower(s[i + k - 1]) = p[k]

\* String.prototype.startsWith
startsWith(s, p) == MatchAt(s, p, 1)

\* String.prototype.includes, for a one-character argument
includes(s, c) == \E i \in 1..Len(s) : s[i] = c

\* String.prototype.includes, for a string argument
includesStr(s, p) == \E i \in 1..Len(s) : MatchAt(s, p, i)

\* the number of characters of the set C that s holds from index i on, in a row
Run(s, i, C) ==
  LET stop == {j \in i..Len(s) : s[j] \notin C}
  IN  IF stop = {} THEN (IF i > Len(s) THEN 0 ELSE Len(s) - i + 1)
      ELSE Min(stop) - i

\* String.prototype.trim
trim(s) ==
  LET keep == {j \in 1..Len(s) : s[j] \notin WS}
  IN  IF keep = {} THEN <<>> ELSE SubSeq(s, Min(keep), Max(keep))

\* Array.prototype.join of strings with the separator sep (a string)
RECURSIVE join(_, _)
join(ss, sep) ==
  IF Len(ss) = 0 THEN <<>>
  ELSE IF Len(ss) = 1 THEN ss[1]
  ELSE ss[1] \o sep \o join(Tail(ss), sep)

\* String.prototype.split for a one-character separator
RECURSIVE split(_, _)
split(s, c) ==
  LET at == {j \in 1..Len(s) : s[j] = c}
  IN  IF at = {} THEN <<s>>
      ELSE <<SubSeq(s, 1, Min(at) - 1)>> \o split(From(s, Min(at) + 1), c)

\* parseInt of a string of decimal digits
RECURSIVE parseInt(_)
parseInt(s) ==
  IF Len(s) = 0 THEN 0
  ELSE 10 * parseInt(SubSeq(s, 1, Len(s) - 1))
       + (CHOOSE d \in 0..9 : DigitSeq[d + 1] = s[Len(s)])

\* the decimal digits of a number, as a template literal prints it
RECURSIVE toDecimal(_)
toDecimal(n) ==
  IF n < 10 THEN <<DigitSeq[n + 1]>>
  ELSE toDecimal(n \div 10) \o <<DigitSeq[(n % 10) + 1]>>

\* the tail "\s+(.+)$" of a regular expression, tried at index i of s: \s+ takes
\* the whole run of white space and gives one character back when nothing else
\* is left for (.+)
RestOk(s, i) ==
  LET k == Run(s, i, WS)
  IN  k >= 1 /\ (i + k <= Len(s) \/ k >= 2)

RestText(s, i) ==
  LET k == Run(s, i, WS)
  IN  IF i + k <= Len(s) THEN From(s, i + k) ELSE <<s[Len(s)]>>

\* the number of characters outside the set C that s holds from index i on, in a row
RunNot(s, i, C) ==
  LET stop == {j \in i..Len(s) : s[j] \in C}
  IN  IF stop = {} THEN (IF i > Len(s) THEN 0 ELSE Len(s) - i + 1)
      ELSE Min(stop) - i

At(s, i) == IF i >= 1 /\ i <= Len(s) THEN s[i] ELSE "EOF"

-----------------------------------------------------------------------------
(* MarkdownParser: the tests of parse(), in the order parse() makes them   *)

Fence == <<BT, BT, BT>>
Quotes == {"\"", "'"}
Markers == {"-", "*", "+"}
SepChars == WS \cup {"-", ":", "|"}
RuleChars == {"-", "*", "_"}
sPagebreak == <<"<", "p", "a", "g", "e", "b", "r", "e", "a", "k">>
sImg == <<"<", "i", "m", "g">>
sSrcEq == <<"s", "r", "c", "=">>
sAltEq == <<"a", "l", "t", "=">>
sWidthEq == <<"w", "i", "d", "t", "h", "=">>
sHeightEq == <<"h", "e", "i", "g", "h", "t", "=">>
sMermaid == <<"m", "e", "r", "m", "a", "i", "d">>

\* line.trim() === ''
isBlank(line) == trim(line) = <<>>

\* /^<pagebreak\s*\/?>$/i
pagebreakMatch(line) ==
  /\ MatchAtCI(line, sPagebreak, 1)
  /\ LET j == 11 + Run(line, 11, WS)
     IN  \/ At(line, j) = ">" /\ Len(line) = j
         \/ At(line, j) = "/" /\ At(line, j + 1) = ">" /\ Len(line) = j + 1

\* /^(#{1,6})\s+(.+)$/
headingMatch(line) ==
  LET n == Run(line, 1, {"#"})
  IN  n >= 1 /\ n <= 6 /\ RestOk(line, n + 1)

headingLevel(line) == Run(line, 1, {"#"})
headingText(line) == RestText(line, Run(line, 1, {"#"}) + 1)

\* /^!\[([^\]]*)\]\(([^)]+)\)$/
imageMatch(line) ==
  /\ MatchAt(line, <<"!", "[">>, 1)
  /\ LET a == RunNot(line, 3, {"]"})
         b == RunNot(line, 5 + a, {")"})
     IN  /\ At(line, 3 + a) = "]"
         /\ At(line, 4 + a) = "("
         /\ b >= 1
         /\ At(line, 5 + a + b) = ")"
         /\ Len(line) = 5 + a + b

imageAlt(line) == SubSeq(line, 3, 2 + RunNot(line, 3, {"]"}))
imageSrc(line) ==
  LET a == RunNot(line, 3, {"]"})
  IN  SubSeq(line, 5 + a, 4 + a + RunNot(line, 5 + a, {")"}))

\* /<img\s+[^>]*src=["']([^"']+)["'][^>]*>/i tried at index i of s with "src="
\* at index j: the tag is open up to j, the source is quoted and not empty, and
\* a ">" closes the tag
imgTagAt(s, i, j) ==
  /\ MatchAtCI(s, sImg, i)
  /\ At(s, i + 4) \in WS
  /\ j >= i + 5
  /\ \A k \in (i + 4)..(j - 1) : s[k] # ">"
  /\ MatchAtCI(s, sSrcEq, j)
  /\ At(s, j + 4) \in Quotes
  /\ RunNot(s, j + 5, Quotes) >= 1
  /\ At(s, j + 5 + RunNot(s, j + 5, Quotes)) \in Quotes
  /\ \E e \in (j + 6 + RunNot(s, j + 5, Quotes))..Len(s) : s[e] = ">"

\* the match that starts at index i of s with "src=" at index j, the source
\* being q characters long: the first ">" after the source ends the tag
imgTagFound(s, i, j, q) ==
  [found |-> TRUE, index |-> i - 1,
   length |-> Min({k \in (j + 6 + q)..Len(s) : s[k] = ">"}) - i + 1,
   src |-> SubSeq(s, j + 5, j + 4 + q)]

\* the match that starts at index i of s, [^>]* before src= being greedy
imgTagFrom(s, i, j) == imgTagFound(s, i, j, RunNot(s, j + 5, Quotes))

\* the leftmost of the starts of a match
imgTagFirst(s, starts) ==
  IF starts = {} THEN [found |-> FALSE, index |-> 0, length |-> 0, src |-> <<>>]
  ELSE imgTagFrom(s, Min(starts), Max({k \in 1..Len(s) : imgTagAt(s, Min(starts), k)}))

\* s.match(imgPattern)
imgTagMatch(s) ==
  imgTagFirst(s, {i \in 1..Len(s) : \E j \in 1..Len(s) : imgTagAt(s, i, j)})

\* /width=["']?(\d+)["']?/i and /height=["']?(\d+)["']?/i: the number, 0 for no
\* match (null and 0 are both falsy where the result is used)
attrNumber(s, name) ==
  LET digitsAt(p) == IF At(s, p + Len(name)) \in Quotes
                        /\ Run(s, p + Len(name) + 1, Digits) >= 1
                     THEN p + Len(name) + 1 ELSE p + Len(name)
      ok(p) == MatchAtCI(s, name, p) /\ Run(s, digitsAt(p), Digits) >= 1
      at == {p \in 1..Len(s) : ok(p)}
  IN  IF at = {} THEN 0
      ELSE LET d == digitsAt(Min(at))
           IN  parseInt(SubSeq(s, d, d + Run(s, d, Digits) - 1))

\* /alt=["']([^"']*)["']/i: the text, '' for no match
attrAlt(s) ==
  LET ok(p) == /\ MatchAtCI(s, sAltEq, p)
               /\ At(s, p + 4) \in Quotes
               /\ At(s, p + 5 + RunNot(s, p + 5, Quotes)) \in Quotes
      at == {p \in 1..Len(s) : ok(p)}
  IN  IF at = {} THEN <<>>
      ELSE SubSeq(s, Min(at) + 5, Min(at) + 4 + RunNot(s, Min(at) + 5, Quotes))

\* /^\|?[\s\-:|]+\|?$/
separatorMatch(line) == Len(line) >= 1 /\ \A k \in 1..Len(line) : line[k] \in SepChars

\* line.includes('|') && this.pos + 1 < this.lines.length && next line matches
tableTest(ls, p) ==
  /\ includes(ls[p + 1], "|")
  /\ p + 1 < Len(ls)
  /\ separatorMatch(ls[p + 2])

\* /^[\s]*[-*+]\s+/
bulletTest(line) ==
  LET w == Run(line, 1, WS)
  IN  At(line, w + 1) \in Markers /\ At(line, w + 2) \in WS

\* /^[\s]*\d+\.\s+/
numberTest(line) ==
  LET w == Run(line, 1, WS)
      d == Run(line, w + 1, Digits)
  IN  d >= 1 /\ At(line, w + d + 1) = "." /\ At(line, w + d + 2) \in WS

\* /^[-*_]{3,}$/
hrMatch(line) == Len(line) >= 3 /\ \A k \in 1..Len(line) : line[k] \in RuleChars


-----------------------------------------------------------------------------
(* MarkdownParser: the block parsers. Each takes this.lines, this.pos and  *)
(* this.elements and gives the new [pos, elements].                        *)

\* a variant that takes the closing fence into the content
parseCodeBlockInclusive(ls, p, els) ==
  LET startLine == ls[p + 1]
      lang == trim(From(startLine, 4))
      closing == {q \in (p + 1)..(Len(ls) - 1) : startsWith(ls[q + 1], Fence)}
      stop == IF closing = {} THEN Len(ls) ELSE Min(closing) + 1
      codeLines == SubSeq(ls, p + 2, stop)
  IN  [pos |-> stop + 1,
       elements |-> Append(els, [type |-> "code", language |-> lang,
                                 content |-> join(codeLines, <<NL>>)])]

\* parseCodeBlock
parseCodeBlock(ls, p, els) ==
  LET startLine == ls[p + 1]
      lang == trim(From(startLine, 4))
      closing == {q \in (p + 1)..(Len(ls) - 1) : startsWith(ls[q + 1], Fence)}
      stop == IF closing = {} THEN Len(ls) ELSE Min(closing)
      codeLines == SubSeq(ls, p + 2, stop)
  IN  [pos |-> stop + 1,
       elements |-> Append(els, [type |-> "code", language |-> lang,
                                 content |-> join(codeLines, <<NL>>)])]

\* a variant that drops every empty cell
RECURSIVE filterCellsNonEmpty(_, _)
filterCellsNonEmpty(cells, idx) ==
  IF idx > Len(cells) THEN <<>>
  ELSE (IF cells[idx] # <<>> THEN <<cells[idx]>> ELSE <<>>)
       \o filterCellsNonEmpty(cells, idx + 1)

\* the filter of parseTableRow: an empty first or last cell is dropped
RECURSIVE filterCells(_, _)
filterCells(cells, idx) ==
  IF idx > Len(cells) THEN <<>>
  ELSE (IF (idx - 1 > 0 /\ idx - 1 < Len(cells) - 1) \/ cells[idx] # <<>>
        THEN <<cells[idx]>> ELSE <<>>) \o filterCells(cells, idx + 1)

\* parseTableRow
parseTableRow(line) ==
  LET raw == split(line, "|")
      cells == [k \in 1..Len(raw) |-> trim(raw[k])]
  IN  filterCells(cells, 1)

\* the data rows of parseTable: the lines from p on that include '|'
RECURSIVE tableRows(_, _, _)
tableRows(ls, p, rows) ==
  IF p < Len(ls) /\ includes(ls[p + 1], "|")
  THEN tableRows(ls, p + 1, Append(rows, parseTableRow(ls[p + 1])))
  ELSE [pos |-> p, rows |-> rows]

\* parseTable
parseTable(ls, p, els) ==
  LET r == tableRows(ls, p + 2, <<parseTableRow(ls[p + 1])>>)
  IN  [pos |-> r.pos,
       elements |-> Append(els, [type |-> "table", rows |-> r.rows])]

\* topPattern of parseList: /^[-*+]\s+(.+)$/ or /^\d+\.\s+(.+)$/
topMatch(line, listType) ==
  IF listType = "bullet"
  THEN At(line, 1) \in Markers /\ RestOk(line, 2)
  ELSE LET d == Run(line, 1, Digits)
       IN  d >= 1 /\ At(line, d + 1) = "." /\ RestOk(line, d + 2)

topText(line, listType) ==
  IF listType = "bullet" THEN RestText(line, 2)
  ELSE RestText(line, Run(line, 1, Digits) + 2)

\* /^(\s+)[-*+]\s+(.+)$/
nestedMatch(line) ==
  LET w == Run(line, 1, WS)
  IN  w >= 1 /\ At(line, w + 1) \in Markers /\ RestOk(line, w + 2)

\* a variant that rounds the half down: Math.min(Math.floor(indent / 2), 3)
nestLevelFloor(indent) ==
  LET half == indent \div 2
  IN  IF half < 3 THEN half ELSE 3

\* Math.min(Math.floor((indent + 1) / 2), 3)
nestLevel(indent) ==
  LET half == (indent + 1) \div 2
  IN  IF half < 3 THEN half ELSE 3

\* the while loop of parseList
RECURSIVE listItems(_, _, _, _)
listItems(ls, p, listType, items) ==
  IF ~(p < Len(ls)) THEN [pos |-> p, items |-> items]
  ELSE LET line == ls[p + 1]
       IN  IF topMatch(line, listType)
           THEN listItems(ls, p + 1, listType,
                          Append(items, [text |-> topText(line, listType), level |-> 0]))
           ELSE IF nestedMatch(line)
           THEN listItems(ls, p + 1, listType,
                          Append(items, [text |-> RestText(line, Run(line, 1, WS) + 2),
                                         level |-> nestLevel(Run(line, 1, WS))]))
           ELSE IF isBlank(line) THEN [pos |-> p + 1, items |-> items]
           ELSE [pos |-> p, items |-> items]

\* parseList
parseList(ls, p, els, listType) ==
  LET r == listItems(ls, p, listType, <<>>)
  IN  [pos |-> r.pos,
       elements |-> Append(els, [type |-> "list", listType |-> listType,
                                 items |-> r.items])]

\* a variant that removes all the white space after the marker
unquoteAll(line) == From(line, 2 + Run(line, 2, WS))

\* line.replace(/^>\s?/, '')
unquote(line) == IF At(line, 2) \in WS THEN From(line, 3) ELSE From(line, 2)

\* parseBlockquote
parseBlockquote(ls, p, els) ==
  LET other == {q \in p..(Len(ls) - 1) : ~startsWith(ls[q + 1], <<">">>)}
      stop == IF other = {} THEN Len(ls) ELSE Min(other)
      quoted == [k \in 1..(stop - p) |-> unquote(ls[p + k])]
  IN  [pos |-> stop,
       elements |-> Append(els, [type |-> "blockquote", text |-> join(quoted, <<NL>>)])]

\* the test that ends the while loop of parseParagraph
paragraphBreak(line) ==
  \/ isBlank(line)
  \/ startsWith(line, <<"#">>)
  \/ startsWith(line, Fence)
  \/ (At(line, 1) \in Markers /\ At(line, 2) \in WS)
  \/ LET d == Run(line, 1, Digits)
     IN  d >= 1 /\ At(line, d + 1) = "." /\ At(line, d + 2) \in WS
  \/ startsWith(line, <<">">>)

\* parseParagraph
parseParagraph(ls, p, els) ==
  LET breaks == {q \in p..(Len(ls) - 1) : paragraphBreak(ls[q + 1])}
      stop == IF breaks = {} THEN Len(ls) ELSE Min(breaks)
      taken == SubSeq(ls, p + 1, stop)
  IN  [pos |-> stop,
       elements |-> IF Len(taken) > 0
                    THEN Append(els, [type |-> "paragraph", text |-> join(taken, <<" ">>)])
                    ELSE els]

\* a variant that makes the table test before the heading test
blockKindTableFirst(ls, p) ==
  LET line == ls[p + 1]
  IN  IF isBlank(line) THEN "blank"
      ELSE IF startsWith(line, Fence) THEN "code"
      ELSE IF pagebreakMatch(line) THEN "pagebreak"
      ELSE IF tableTest(ls, p) THEN "table"
      ELSE IF headingMatch(line) THEN "heading"
      ELSE IF imageMatch(line) THEN "image"
      ELSE IF imgTagMatch(line).found THEN "imgtag"
      ELSE IF bulletTest(line) THEN "bullet"
      ELSE IF numberTest(line) THEN "number"
      ELSE IF startsWith(line, <<">">>) THEN "blockquote"
      ELSE IF hrMatch(line) THEN "hr"
      ELSE "paragraph"

\* the kind of block that parse() finds at this.pos: the first test that matches
blockKind(ls, p) ==
  LET line == ls[p + 1]
  IN  IF isBlank(line) THEN "blank"
      ELSE IF startsWith(line, Fence) THEN "code"
      ELSE IF pagebreakMatch(line) THEN "pagebreak"
      ELSE IF headingMatch(line) THEN "heading"
      ELSE IF imageMatch(line) THEN "image"
      ELSE IF imgTagMatch(line).found THEN "imgtag"
      ELSE IF tableTest(ls, p) THEN "table"
      ELSE IF bulletTest(line) THEN "bullet"
      ELSE IF numberTest(line) THEN "number"
      ELSE IF startsWith(line, <<">">>) THEN "blockquote"
      ELSE IF hrMatch(line) THEN "hr"
      ELSE "paragraph"

\* the branch of the while loop of parse() that the kind of block selects
parseBlock(ls, p, els, kind) ==
  LET line == ls[p + 1]
  IN  CASE kind = "blank" -> [pos |-> p + 1, elements |-> els]
        [] kind = "code" -> parseCodeBlock(ls, p, els)
        [] kind = "pagebreak" ->
             [pos |-> p + 1, elements |-> Append(els, [type |-> "pagebreak"])]
        [] kind = "heading" ->
             [pos |-> p + 1,
              elements |-> Append(els, [type |-> "heading", level |-> headingLevel(line),
                                        text |-> headingText(line)])]
        [] kind = "image" ->
             [pos |-> p + 1,
              elements |-> Append(els, [type |-> "image", alt |-> imageAlt(line),
                                        src |-> imageSrc(line), width |-> 0, height |-> 0])]
        [] kind = "imgtag" ->
             [pos |-> p + 1,
              elements |-> Append(els, [type |-> "image", alt |-> attrAlt(line),
                                        src |-> imgTagMatch(line).src,
                                        width |-> attrNumber(line, sWidthEq),
                                        height |-> attrNumber(line, sHeightEq)])]
        [] kind = "table" -> parseTable(ls, p, els)
        [] kind = "bullet" -> parseList(ls, p, els, "bullet")
        [] kind = "number" -> parseList(ls, p, els, "number")
        [] kind = "blockquote" -> parseBlockquote(ls, p, els)
        [] kind = "hr" -> [pos |-> p + 1, elements |-> Append(els, [type |-> "hr"])]
        [] OTHER -> parseParagraph(ls, p, els)

\* one iteration of the while loop of parse()
parse(ls, p, els) == parseBlock(ls, p, els, blockKind(ls, p))


-----------------------------------------------------------------------------
(* parseInlineMarkup                                                       *)

NoStyle == [bold |-> FALSE, italics |-> FALSE, strike |-> FALSE, shading |-> FALSE]

\* the patterns array: the delimiter of /d(.+?)d/ and the style of the run
patterns ==
  << [delim |-> <<"*", "*", "*">>, style |-> [NoStyle EXCEPT !.bold = TRUE, !.italics = TRUE]],
     [delim |-> <<"*", "*">>, style |-> [NoStyle EXCEPT !.bold = TRUE]],
     [delim |-> <<"*">>, style |-> [NoStyle EXCEPT !.italics = TRUE]],
     [delim |-> <<"_", "_">>, style |-> [NoStyle EXCEPT !.bold = TRUE]],
     [delim |-> <<"_">>, style |-> [NoStyle EXCEPT !.italics = TRUE]],
     [delim |-> <<"~", "~">>, style |-> [NoStyle EXCEPT !.strike = TRUE]],
     [delim |-> <<BT>>, style |-> [NoStyle EXCEPT !.shading = TRUE]] >>

\* a TextRun in Meiryo 22: plain, styled or red
TextRun(t, style, color) ==
  [type |-> "text", text |-> t, style |-> style, color |-> color]

sImagePrefix == <<"[", "U+753B", "U+50CF", ":", " ">>           \* "[画像: "
sImageError == <<"[", "U+753B", "U+50CF", "U+30A8", "U+30E9", "U+30FC", "]">>  \* "[画像エラー]"
sImageNoDir == <<"[", "U+753B", "U+50CF", "]">>                  \* "[画像]"

\* /d(.+?)d/ tried at index i of s, the closing delimiter at index j
delimAt(s, d, i, j) ==
  /\ MatchAt(s, d, i)
  /\ j >= i + Len(d) + 1
  /\ MatchAt(s, d, j)
  /\ \A k \in (i + Len(d))..(j - 1) : s[k] # NL

\* s.match(p.regex): the leftmost opening delimiter that has a closing one, and
\* the nearest closing one (.+? is not greedy)
delimMatch(s, d) ==
  LET starts == {i \in 1..Len(s) : \E j \in 1..Len(s) : delimAt(s, d, i, j)}
  IN  IF starts = {} THEN [found |-> FALSE, index |-> 0, length |-> 0, text |-> <<>>]
      ELSE LET i == Min(starts)
               j == Min({k \in 1..Len(s) : delimAt(s, d, i, k)})
           IN  [found |-> TRUE, index |-> i - 1, length |-> j + Len(d) - i,
                text |-> SubSeq(s, i + Len(d), j - 1)]

\* /<br\s*\/?>/i tried at index i of s: the length of the match, 0 for none
brLengthAt(s, i) ==
  IF ~MatchAtCI(s, <<"<", "b", "r">>, i) THEN 0
  ELSE LET j == i + 3 + Run(s, i + 3, WS)
       IN  IF At(s, j) = ">" THEN j - i + 1
           ELSE IF At(s, j) = "/" /\ At(s, j + 1) = ">" THEN j - i + 2
           ELSE 0

\* the leftmost of the starts of a match
brFirst(s, starts) ==
  IF starts = {} THEN [found |-> FALSE, index |-> 0, length |-> 0]
  ELSE [found |-> TRUE, index |-> Min(starts) - 1, length |-> brLengthAt(s, Min(starts))]

\* s.match(brPattern)
brMatch(s) == brFirst(s, {i \in 1..Len(s) : brLengthAt(s, i) > 0})

\* the candidates in the order the loop body checks them: the break tag, the
\* image tag, then the seven text patterns
breakCandidate(m) ==
  [found |-> m.found, index |-> m.index, length |-> m.length, type |-> "break",
   order |-> 1]

\* tag is imgMatch[0], the text of the match
imageCandidate(m, tag) ==
  [found |-> m.found, index |-> m.index, length |-> m.length, type |-> "image",
   order |-> 2, src |-> m.src,
   width |-> IF m.found THEN attrNumber(tag, sWidthEq) ELSE 0,
   height |-> IF m.found THEN attrNumber(tag, sHeightEq) ELSE 0]

imageCandidateOf(s, m) == imageCandidate(m, SubSeq(s, m.index + 1, m.index + m.length))

textCandidate(m, k) ==
  [found |-> m.found, index |-> m.index, length |-> m.length, type |-> "text",
   order |-> k + 2, text |-> m.text, style |-> patterns[k].style]

candidates(s) ==
  <<breakCandidate(brMatch(s)), imageCandidateOf(s, imgTagMatch(s))>>
  \o [k \in 1..Len(patterns) |-> textCandidate(delimMatch(s, patterns[k].delim), k)]

\* a variant that lets a later check take over a match at the same index
closerOrEqual(cand, earliest) == cand.found /\ cand.index <= earliest.index

\* "if (match && match.index < earliest.index) earliest = ..."
closer(cand, earliest) == cand.found /\ cand.index < earliest.index

\* the value of earliest after the checks 1..n of the loop body
RECURSIVE earliestAfter(_, _, _)
earliestAfter(s, cands, n) ==
  IF n = 0
  THEN [found |-> FALSE, index |-> Len(s), length |-> 0, type |-> "text", order |-> 0]
  ELSE LET before == earliestAfter(s, cands, n - 1)
       IN  IF closer(cands[n], before) THEN cands[n] ELSE before

earliestMatch(s) == earliestAfter(s, candidates(s), Len(patterns) + 2)

\* the state of the file a path names
fileState(fs, src) == IF src \in DOMAIN fs THEN fs[src] ELSE "absent"

\* a variant that does not look whether the file exists
inlineImageRunUnchecked(e, hasDir, fs) ==
  IF ~hasDir THEN TextRun(sImageNoDir, NoStyle, "")
  ELSE IF fileState(fs, e.src) \in {"present", "absent"}
  THEN [type |-> "image", src |-> e.src,
        width |-> IF e.width # 0 THEN e.width ELSE 24,
        height |-> IF e.height # 0 THEN e.height
                   ELSE IF e.width # 0 THEN e.width ELSE 24]
  ELSE TextRun(sImageError, NoStyle, "FF0000")

\* the run pushed for an inline image
inlineImageRun(e, hasDir, fs) ==
  IF ~hasDir THEN TextRun(sImageNoDir, NoStyle, "")
  ELSE IF fileState(fs, e.src) = "present"
  THEN [type |-> "image", src |-> e.src,
        width |-> IF e.width # 0 THEN e.width ELSE 24,
        height |-> IF e.height # 0 THEN e.height
                   ELSE IF e.width # 0 THEN e.width ELSE 24]
  ELSE IF fileState(fs, e.src) = "absent"
  THEN TextRun(sImagePrefix \o e.src \o <<"]">>, NoStyle, "FF0000")
  ELSE TextRun(sImageError, NoStyle, "FF0000")

\* a variant that cuts the remaining text at the start of the match and not
\* behind it
inlineTakenKeepsMatch(e, rem, rs1, hasDir, fs) ==
  IF e.index < Len(rem)
  THEN [remaining |-> From(rem, e.index + 1),
        runs |-> Append(rs1,
                   IF e.type = "break" THEN [type |-> "break"]
                   ELSE IF e.type = "image" THEN inlineImageRun(e, hasDir, fs)
                   ELSE TextRun(e.text, e.style, "")),
        stop |-> FALSE]
  ELSE [remaining |-> rem,
        runs |-> IF Len(rem) > 0 THEN Append(rs1, TextRun(rem, NoStyle, "")) ELSE rs1,
        stop |-> TRUE]

\* one iteration of the while loop of parseInlineMarkup
\* rs1 is runs after "if (earliest.before) runs.push(...)"
inlineTaken(e, rem, rs1, hasDir, fs) ==
  IF e.index < Len(rem)
  THEN [remaining |-> From(rem, e.index + e.length + 1),
        runs |-> Append(rs1,
                   IF e.type = "break" THEN [type |-> "break"]
                   ELSE IF e.type = "image" THEN inlineImageRun(e, hasDir, fs)
                   ELSE TextRun(e.text, e.style, "")),
        stop |-> FALSE]
  ELSE [remaining |-> rem,
        runs |-> IF Len(rem) > 0 THEN Append(rs1, TextRun(rem, NoStyle, "")) ELSE rs1,
        stop |-> TRUE]

\* a variant that forgets the text in front of the match
pushBeforeDropped(e, before, rs) == rs

\* "if (earliest.before) runs.push(...)": before is remaining.slice(0, index)
pushBefore(e, before, rs) ==
  IF e.found /\ before # <<>> THEN Append(rs, TextRun(before, NoStyle, "")) ELSE rs

inlineWith(e, rem, rs, hasDir, fs) ==
  inlineTaken(e, rem, pushBefore(e, SubSeq(rem, 1, e.index), rs), hasDir, fs)

inlineStep(rem, rs, hasDir, fs) == inlineWith(earliestMatch(rem), rem, rs, hasDir, fs)

\* the while loop of parseInlineMarkup
RECURSIVE inlineLoop(_, _, _, _)
inlineAfter(r, hasDir, fs) ==
  IF r.stop THEN r.runs ELSE inlineLoop(r.remaining, r.runs, hasDir, fs)

inlineLoop(rem, rs, hasDir, fs) ==
  IF ~(Len(rem) > 0) THEN rs
  ELSE inlineAfter(inlineStep(rem, rs, hasDir, fs), hasDir, fs)

\* "return runs.length > 0 ? runs : [new TextRun({ text: text, ... })]"
inlineResult(t, rs) == IF Len(rs) > 0 THEN rs ELSE <<TextRun(t, NoStyle, "")>>

\* parseInlineMarkup
parseInlineMarkup(t, hasDir, fs) == inlineResult(t, inlineLoop(t, <<>>, hasDir, fs))


-----------------------------------------------------------------------------
(* extractChangelog and the removal of the CHANGELOG block in main         *)

WSN == WS \cup {NL}    \* \s in a text that holds line breaks
sOpen == <<"<", "!", "-", "-">>
sClose == <<"-", "-", ">">>
sChangelog == <<"C", "H", "A", "N", "G", "E", "L", "O", "G">>
sVersionJa == <<"U+30D0", "U+30FC", "U+30B8", "U+30E7", "U+30F3">>  \* "バージョン"

\* /<!--\s*CHANGELOG\s*-->/ (slash = FALSE) or /<!--\s*\/CHANGELOG\s*-->/ (slash =
\* TRUE) tried at index i of s: the index after the match, 0 for no match
markerEnd(s, i, slash) ==
  LET word == IF slash THEN <<"/">> \o sChangelog ELSE sChangelog
      a == i + 4 + Run(s, i + 4, WSN)
      b == a + Len(word) + Run(s, a + Len(word), WSN)
  IN  IF MatchAt(s, sOpen, i) /\ MatchAt(s, word, a) /\ MatchAt(s, sClose, b)
      THEN b + 3 ELSE 0

\* markdown.match(/<!--\s*CHANGELOG\s*-->([\s\S]*?)<!--\s*\/CHANGELOG\s*-->/):
\* the leftmost opening marker that a closing marker follows, and the nearest
\* closing marker
changelogMatch(s) ==
  LET closes(from) == {j \in from..Len(s) : markerEnd(s, j, TRUE) > 0}
      starts == {i \in 1..Len(s) :
                   markerEnd(s, i, FALSE) > 0 /\ closes(markerEnd(s, i, FALSE)) # {}}
  IN  IF starts = {} THEN [found |-> FALSE, index |-> 0, end |-> 0, group |-> <<>>]
      ELSE LET i == Min(starts)
               a == markerEnd(s, i, FALSE)
               j == Min(closes(a))
           IN  [found |-> TRUE, index |-> i, end |-> markerEnd(s, j, TRUE),
                group |-> SubSeq(s, a, j - 1)]

\* String.prototype.trim on a text that holds line breaks
trimN(s) ==
  LET keep == {j \in 1..Len(s) : s[j] \notin WSN}
  IN  IF keep = {} THEN <<>> ELSE SubSeq(s, Min(keep), Max(keep))

\* Array.prototype.filter(line => line.trim())
RECURSIVE nonBlank(_)
nonBlank(ls) ==
  IF Len(ls) = 0 THEN <<>>
  ELSE (IF trim(ls[1]) # <<>> THEN <<ls[1]>> ELSE <<>>) \o nonBlank(Tail(ls))

\* /^\|[\s\-:|]+\|$/
changelogSeparator(line) ==
  /\ Len(line) >= 3
  /\ line[1] = "|"
  /\ line[Len(line)] = "|"
  /\ \A k \in 1..Len(line) : line[k] \in SepChars

\* "if (i === 0 && line.includes('バージョン')) continue"
changelogHeader(line, i) == i = 0 /\ includesStr(line, sVersionJa)

\* the for loop of extractChangelog over lines[i..]
RECURSIVE changelogRows(_, _)
changelogRows(ls, i) ==
  IF ~(i < Len(ls)) THEN <<>>
  ELSE LET line == trim(ls[i + 1])
           cells == parseTableRow(line)
       IN  (IF changelogSeparator(line) THEN <<>>
            ELSE IF changelogHeader(line, i) THEN <<>>
            ELSE IF includes(line, "|") /\ Len(cells) >= 3
            THEN <<[version |-> cells[1], date |-> cells[2], description |-> cells[3]]>>
            ELSE <<>>) \o changelogRows(ls, i + 1)

NoChangelog == [isNull |-> TRUE, rows |-> <<>>]

\* extractChangelog
changelogLines(content) == nonBlank(split(trimN(content), NL))

\* "if (!match) return null" and "return rows.length > 0 ? rows : null"
changelogResult(found, dataRows) ==
  IF ~found THEN NoChangelog
  ELSE IF Len(dataRows) > 0 THEN [isNull |-> FALSE, rows |-> dataRows]
  ELSE NoChangelog

changelogFrom(m) == changelogResult(m.found, changelogRows(changelogLines(m.group), 0))

extractChangelog(markdown) == changelogFrom(changelogMatch(markdown))

\* markdownRaw.replace(/<!--\s*CHANGELOG\s*-->[\s\S]*?<!--\s*\/CHANGELOG\s*-->\s*/, '')
removeMatch(s, m) ==
  IF ~m.found THEN s
  ELSE SubSeq(s, 1, m.index - 1) \o From(s, m.end + Run(s, m.end, WSN))

removeChangelog(s) == removeMatch(s, changelogMatch(s))


-----------------------------------------------------------------------------
(* Mermaid rendering: getPngDimensions, renderMermaidToPng and             *)
(* prerenderMermaidDiagrams                                                *)

PAGE_WIDTH == 11906
MARGIN == 1440
CONTENT_WIDTH == PAGE_WIDTH - (MARGIN * 2)
MERMAID_IMAGE_WIDTH == 600

\* a Buffer is a sequence of bytes; a promise or Map value is a Buffer or null
Null == [isNull |-> TRUE, bytes |-> <<>>]
Buffer(b) == [isNull |-> FALSE, bytes |-> b]

\* Buffer.prototype.readUInt32BE(offset)
readUInt32BE(b, offset) ==
  ((b[offset + 1] * 256 + b[offset + 2]) * 256 + b[offset + 3]) * 256 + b[offset + 4]

\* getPngDimensions
getPngDimensions(pngData) ==
  IF Len(pngData) < 24 THEN [isNull |-> TRUE, width |-> 0, height |-> 0]
  ELSE IF pngData[1] # 137 \/ pngData[2] # 80 \/ pngData[3] # 78 \/ pngData[4] # 71
  THEN [isNull |-> TRUE, width |-> 0, height |-> 0]
  ELSE [isNull |-> FALSE, width |-> readUInt32BE(pngData, 16),
        height |-> readUInt32BE(pngData, 20)]

sInit == <<"%", "%", "{", "i", "n", "i", "t", ":">>
sInitTheme == sInit \o <<" ", "{", "'", "t", "h", "e", "m", "e", "'", ":", " ", "'">>
sInitEnd == <<"'", "}", "}", "%", "%", NL>>

\* a string, or the null or undefined that stands where a string may stand
Str(s) == [isNull |-> FALSE, chars |-> s]
NoStr == [isNull |-> TRUE, chars |-> <<>>]

\* the truth value of such a value in a condition: '' is falsy as null is
falsy(v) == v.isNull \/ v.chars = <<>>

sBlue == <<"b", "l", "u", "e">>
sOrange == <<"o", "r", "a", "n", "g", "e">>
sGreen == <<"g", "r", "e", "e", "n">>
sDefault == <<"d", "e", "f", "a", "u", "l", "t">>

\* THEME_COLORS
THEME_COLORS ==
  [t \in {sBlue, sOrange, sGreen} |->
     CASE t = sBlue -> [truthy |-> TRUE, headerBorder |-> Str(<<"2", "F", "4", "F", "7", "6">>),
                        tableHeader |-> Str(<<"5", "3", "8", "D", "D", "4">>), mermaid |-> Str(sDefault)]
       [] t = sOrange -> [truthy |-> TRUE, headerBorder |-> Str(<<"B", "4", "5", "F", "0", "6">>),
                          tableHeader |-> Str(<<"F", "6", "B", "2", "6", "B">>),
                          mermaid |-> Str(<<"n", "e", "u", "t", "r", "a", "l">>)]
       [] t = sGreen -> [truthy |-> TRUE, headerBorder |-> Str(<<"3", "8", "7", "6", "1", "D">>),
                         tableHeader |-> Str(<<"9", "3", "C", "4", "7", "D">>),
                         mermaid |-> Str(<<"f", "o", "r", "e", "s", "t">>)]]

\* names that every object inherits from Object.prototype
PrototypeKeys ==
  {<<"c", "o", "n", "s", "t", "r", "u", "c", "t", "o", "r">>,
   <<"t", "o", "S", "t", "r", "i", "n", "g">>,
   <<"v", "a", "l", "u", "e", "O", "f">>,
   <<"h", "a", "s", "O", "w", "n", "P", "r", "o", "p", "e", "r", "t", "y">>,
   <<"_", "_", "p", "r", "o", "t", "o", "_", "_">>}

\* THEME_COLORS[theme]: an own property, else an inherited one (a function or
\* an object, truthy, without the properties of a palette), else undefined
themeLookup(theme) ==
  IF theme \in DOMAIN THEME_COLORS THEN THEME_COLORS[theme]
  ELSE [truthy |-> theme \in PrototypeKeys, headerBorder |-> NoStr,
        tableHeader |-> NoStr, mermaid |-> NoStr]

\* getThemeColors
getThemeColors(theme) ==
  IF themeLookup(theme).truthy THEN themeLookup(theme) ELSE THEME_COLORS[sBlue]

\* the mermaidTheme that prerenderMermaidDiagrams receives for colors.mermaid:
\* undefined takes the default of the parameter
mermaidThemeOf(colors) == IF colors.mermaid.isNull THEN sDefault ELSE colors.mermaid.chars

\* getThemeColors(options.theme).mermaid as main passes it on
themeMermaid(theme) == mermaidThemeOf(getThemeColors(theme))

\* a variant that looks for the directive at the start of the source only
postDataOfStart(diagramSource, mermaidTheme) ==
  IF ~startsWith(diagramSource, sInit)
  THEN sInitTheme \o mermaidTheme \o sInitEnd \o diagramSource
  ELSE diagramSource

\* the postData of renderMermaidToPng
postDataOf(diagramSource, mermaidTheme) ==
  IF ~includesStr(diagramSource, sInit)
  THEN sInitTheme \o mermaidTheme \o sInitEnd \o diagramSource
  ELSE diagramSource

\* elements.filter(el => el.type === 'code' && el.language === 'mermaid')
RECURSIVE mermaidElements(_)
mermaidElements(els) ==
  IF Len(els) = 0 THEN <<>>
  ELSE (IF els[1].type = "code" /\ els[1].language = sMermaid THEN <<els[1]>> ELSE <<>>)
       \o mermaidElements(Tail(els))

\* renderedMap.has(key)
mapHas(map, key) == key \in DOMAIN map

\* a variant that asks again for a source whose rendering failed
renderDueRetry(map, el) ==
  IF mapHas(map, el.content) THEN map[el.content].isNull ELSE TRUE

\* the test of the loop of prerenderMermaidDiagrams: is a request due for el
renderDue(map, el) == ~mapHas(map, el.content)

\* renderedMap.set(key, value)
mapSet(map, key, value) ==
  [k \in DOMAIN map \cup {key} |-> IF k = key THEN value ELSE map[k]]

\* renderedMap.get(key): undefined reads as null, both are falsy
mapGet(map, key) == IF key \in DOMAIN map THEN map[key] ELSE Null

\* a variant that settles the promise with bytes only
resolveBytesOnly(r, value) ==
  IF r.settled \/ value = Null THEN r ELSE [r EXCEPT !.settled = TRUE, !.value = value]

\* resolve(value) on the promise of a request: the first call settles it
resolve(r, value) == IF r.settled THEN r ELSE [r EXCEPT !.settled = TRUE, !.value = value]

\* Buffer.concat(chunks)
RECURSIVE concat(_)
concat(chunks) == IF Len(chunks) = 0 THEN <<>> ELSE chunks[1] \o concat(Tail(chunks))


-----------------------------------------------------------------------------
(* convertElements                                                         *)

\* A JavaScript number that is not an integer is a fraction n/d of integers,
\* d = 0 standing for Infinity; the arithmetic is exact.
Frac(n, d) == [n |-> n, d |-> d]
fracLess(a, b) ==                       \* a < b
  IF a.d = 0 THEN FALSE ELSE IF b.d = 0 THEN TRUE ELSE a.n * b.d < b.n * a.d
fracMin(a, b) == IF fracLess(b, a) THEN b ELSE a            \* Math.min(a, b)
intDiv(x, k) == Frac(x.n, x.d * k)                           \* x / k
intTimes(k, x) == Frac(k * x.n, x.d)                         \* k * x
intGreater(k, x) == x.d # 0 /\ k * x.d > x.n                 \* k > x
round(x) == (2 * x.n + x.d) \div (2 * x.d)                   \* Math.round(x), x >= 0

TwipPerPixel == 1440 \div 96    \* "/ 1440 * 96": 1440 TWIP and 96 pixels to the inch
MaxHeight == 600

\* (CONTENT_WIDTH - currentSectionIndent) / 1440 * 96
maxWidthOf(indent) == Frac(CONTENT_WIDTH - indent, TwipPerPixel)

\* a variant that takes the larger of the two factors
pickScaleLarger(scaleW, scaleH) == IF fracLess(scaleW, scaleH) THEN scaleH ELSE scaleW

\* Math.min(scaleW, scaleH)
pickScale(scaleW, scaleH) == fracMin(scaleW, scaleH)

\* "if (imgWidth > maxWidth || imgHeight > maxHeight)"
exceeds(imgWidth, imgHeight, maxWidth) ==
  intGreater(imgWidth, maxWidth) \/ imgHeight > MaxHeight

\* the scaling of a rendered diagram to the page
scaleToFit(imgWidth, imgHeight, indent) ==
  LET maxWidth == maxWidthOf(indent)
      scaleW == intDiv(maxWidth, imgWidth)
      scaleH == intDiv(Frac(MaxHeight, 1), imgHeight)
      scale == pickScale(scaleW, scaleH)
  IN  IF exceeds(imgWidth, imgHeight, maxWidth)
      THEN [width |-> round(intTimes(imgWidth, scale)),
            height |-> round(intTimes(imgHeight, scale))]
      ELSE [width |-> imgWidth, height |-> imgHeight]

\* a variant that indents by the depth of the heading
headingIndentByDepth(level) == IF level = 1 THEN 0 ELSE (level - 1) * 360

\* "el.level === 1 ? 0 : 360"
headingIndent(level) == IF level = 1 THEN 0 ELSE 360

sNumber == <<"n", "u", "m", "b", "e", "r", "-">>
sIndent == <<"-", "i", "n", "d", "e", "n", "t">>
MiddleDot == "U+30FB"    \* the bullet of a top-level item

\* `number-${numberListRef}-indent${currentSectionIndent}`
listRefOf(count, indent) == sNumber \o toDecimal(count) \o sIndent \o toDecimal(indent)

\* the counter of numbered lists after a list element
countList(count, el) == IF el.listType = "number" THEN count + 1 ELSE count

\* the paragraph of one list item
listItemOf(el, item, listRef, indent, itemRuns) ==
  IF el.listType = "number" /\ item.level = 0
  THEN [kind |-> "numbered", reference |-> listRef, level |-> 0, runs |-> itemRuns]
  ELSE [kind |-> "bullet", indent |-> indent + 720 + item.level * 360, hanging |-> 360,
        bullet |-> IF el.listType = "bullet" /\ item.level = 0 THEN MiddleDot ELSE "-",
        runs |-> itemRuns]

listItemParagraph(el, item, listRef, indent, fs) ==
  listItemOf(el, item, listRef, indent, parseInlineMarkup(item.text, TRUE, fs))

\* a variant that embeds whatever the Map holds
mermaidParagraphUnchecked(el, map, indent) ==
  [kind |-> "mermaid", indent |-> indent, width |-> MERMAID_IMAGE_WIDTH,
   height |-> MaxHeight, data |-> mapGet(map, el.content).bytes]

\* the paragraph of a mermaid code block
mermaidParagraph(el, map, indent) ==
  LET imageData == mapGet(map, el.content)
      dimensions == getPngDimensions(imageData.bytes)
      imgWidth == IF ~dimensions.isNull THEN dimensions.width ELSE MERMAID_IMAGE_WIDTH
      imgHeight == IF ~dimensions.isNull THEN dimensions.height
                   ELSE round(Frac(MERMAID_IMAGE_WIDTH * 6, 10))
      fit == scaleToFit(imgWidth, imgHeight, indent)
  IN  IF ~imageData.isNull
      THEN [kind |-> "mermaid", indent |-> indent, width |-> fit.width,
            height |-> fit.height, data |-> imageData.bytes]
      ELSE [kind |-> "mermaidWarning", indent |-> indent]

\* the paragraphs of a code block that is not a diagram
codeParagraphs(el, indent) ==
  LET codeLines == split(el.content, NL)
  IN  [k \in 1..Len(codeLines) |->
         [kind |-> "code", indent |-> indent + 360,
          text |-> IF codeLines[k] # <<>> THEN codeLines[k] ELSE <<" ">>]]

\* the Table of a table element
tableOf(el, indent, fs) ==
  LET colCount == IF Len(el.rows[1]) # 0 THEN Len(el.rows[1]) ELSE 1
      tableWidth == CONTENT_WIDTH - indent
  IN  [kind |-> "table", indent |-> indent, width |-> tableWidth,
       colWidth |-> tableWidth \div colCount,
       rows |-> [r \in 1..Len(el.rows) |->
                   [c \in 1..Len(el.rows[r]) |->
                      parseInlineMarkup(el.rows[r][c], TRUE, fs)]]]

\* the paragraph of an image element
imageParagraph(el, indent, fs) ==
  IF fileState(fs, el.src) = "present"
  THEN [kind |-> "image", indent |-> indent,
        width |-> IF el.width # 0 THEN el.width ELSE 400,
        height |-> IF el.height # 0 THEN el.height
                   ELSE IF el.width # 0 THEN round(Frac(el.width * 3, 4)) ELSE 300]
  ELSE IF fileState(fs, el.src) = "absent"
  THEN [kind |-> "imageMissing", indent |-> indent, src |-> el.src]
  ELSE [kind |-> "imageError", indent |-> indent, src |-> el.src]

\* the paragraphs that one iteration of the loop of convertElements pushes
paragraphsOf(el, count, indent, map, fs) ==
  CASE el.type = "heading" ->
         <<[kind |-> "heading", level |-> IF el.level <= 3 THEN el.level ELSE 3,
            indent |-> headingIndent(el.level), text |-> el.text]>>
    [] el.type = "paragraph" ->
         <<[kind |-> "paragraph", indent |-> indent,
            runs |-> parseInlineMarkup(el.text, TRUE, fs)]>>
    [] el.type = "list" ->
         [k \in 1..Len(el.items) |->
            listItemParagraph(el, el.items[k],
                              listRefOf(countList(count, el), indent), indent, fs)]
    [] el.type = "code" ->
         IF el.language = sMermaid THEN <<mermaidParagraph(el, map, indent)>>
         ELSE codeParagraphs(el, indent)
    [] el.type = "table" -> <<tableOf(el, indent, fs)>>
    [] el.type = "blockquote" ->
         <<[kind |-> "blockquote", indent |-> indent + 720, text |-> el.text]>>
    [] el.type = "image" -> <<imageParagraph(el, indent, fs)>>
    [] el.type = "hr" -> <<[kind |-> "hr", indent |-> indent]>>
    [] el.type = "pagebreak" -> <<[kind |-> "pagebreak"]>>
    [] OTHER -> <<>>

\* currentSectionIndent after one iteration of the loop of convertElements
indentAfter(el, indent) ==
  IF el.type = "heading" THEN headingIndent(el.level) ELSE indent

\* a variant that starts the count again after an element that is no list
countAfterRestart(el, count) == IF el.type = "list" THEN countList(count, el) ELSE 0

\* numberListRef after one iteration of the loop of convertElements
countAfter(el, count) == IF el.type = "list" THEN countList(count, el) ELSE count

-----------------------------------------------------------------------------
(* main                                                                    *)

\* a variant that indents by the depth of the heading
configIndentByDepth(level) == IF level = 1 THEN 0 ELSE (level - 1) * 360

\* "currentIndent = el.level === 1 ? 0 : 360" in main
configIndent(level) == IF level = 1 THEN 0 ELSE 360

\* `number-${listCount}-indent${currentIndent}` in main
configRefOf(listCount, currentIndent) ==
  sNumber \o toDecimal(listCount) \o sIndent \o toDecimal(currentIndent)

\* the loop of main that builds numberConfigs, from element i on
RECURSIVE numberConfigsFrom(_, _, _, _)
numberConfigsFrom(els, i, listCount, currentIndent) ==
  IF i > Len(els) THEN <<>>
  ELSE LET el == els[i]
           ind == IF el.type = "heading" THEN configIndent(el.level) ELSE currentIndent
       IN  IF el.type = "list" /\ el.listType = "number"
           THEN <<[reference |-> configRefOf(listCount + 1, ind), left |-> ind + 720,
                   hanging |-> 360]>>
                \o numberConfigsFrom(els, i + 1, listCount + 1, ind)
           ELSE numberConfigsFrom(els, i + 1, listCount, ind)


\* parseArgs

sDashes == <<"-", "-">>
sInput == <<"i", "n", "p", "u", "t">>
sOutput == <<"o", "u", "t", "p", "u", "t">>
sTheme == <<"t", "h", "e", "m", "e">>
sDotMd == <<".", "m", "d">>
sDotDocx == <<".", "d", "o", "c", "x">>

\* the date of the day as toLocaleDateString('ja-JP', ...) prints it
Today == <<"TODAY">>

\* the options object of parseArgs before the loop
defaultOptions ==
  LET d == <<<<sInput,
               NoStr>>,
             <<sOutput,
               NoStr>>,
             <<<<"t", "i", "t", "l", "e">>,
               Str(<<"U+88FD", "U+54C1", "U+540D">>)>>,
             <<<<"s", "u", "b", "t", "i", "t", "l", "e">>,
               Str(<<"U+30DE", "U+30CB", "U+30E5", "U+30A2", "U+30EB">>)>>,
             <<<<"d", "o", "c", "t", "y", "p", "e">>,
               Str(<<"U+64CD", "U+4F5C", "U+30DE", "U+30CB", "U+30E5", "U+30A2", "U+30EB">>)>>,
             <<<<"v", "e", "r", "s", "i", "o", "n">>,
               Str(<<"1", ".", "0", ".", "0">>)>>,
             <<<<"d", "a", "t", "e">>,
               Str(Today)>>,
             <<<<"d", "e", "p", "t">>,
               Str(<<"U+6280", "U+8853", "U+958B", "U+767A", "U+90E8">>)>>,
             <<<<"d", "o", "c", "n", "u", "m">>,
               Str(<<"D", "O", "C", "-", "0", "0", "1">>)>>,
             <<<<"l", "o", "g", "o">>,
               NoStr>>,
             <<<<"c", "o", "m", "p", "a", "n", "y">>,
               Str(<<"U+30B5", "U+30F3", "U+30D7", "U+30EB", "U+682A", "U+5F0F", "U+4F1A", "U+793E">>)>>,
             <<sTheme,
               Str(sBlue)>>>>
  IN  [k \in {d[i][1] : i \in 1..Len(d)} |->
         d[CHOOSE i \in 1..Len(d) : d[i][1] = k][2]]

\* the for loop of parseArgs from args[i - 1] on
RECURSIVE argsFrom(_, _, _)
argsFrom(args, i, opts) ==
  IF ~(i <= Len(args)) THEN opts
  ELSE IF startsWith(args[i], sDashes)
  THEN IF From(args[i], 3) \in DOMAIN opts /\ i < Len(args)
       THEN argsFrom(args, i + 2, [opts EXCEPT ![From(args[i], 3)] = Str(args[i + 1])])
       ELSE argsFrom(args, i + 1, opts)
  ELSE IF falsy(opts[sInput])
  THEN argsFrom(args, i + 1, [opts EXCEPT ![sInput] = Str(args[i])])
  ELSE IF falsy(opts[sOutput])
  THEN argsFrom(args, i + 1, [opts EXCEPT ![sOutput] = Str(args[i])])
  ELSE argsFrom(args, i + 1, opts)

\* "if (!options.input) { ...; process.exit(1) }"
noInput(args) == falsy(argsFrom(args, 1, defaultOptions)[sInput])

\* "if (!THEME_COLORS[options.theme]) options.theme = 'blue'"
validateTheme(opts) ==
  IF ~themeLookup(opts[sTheme].chars).truthy THEN [opts EXCEPT ![sTheme] = Str(sBlue)]
  ELSE opts

\* input.replace(/\.md$/, '.docx')
replaceMd(s) ==
  IF Len(s) >= 3 /\ MatchAt(s, sDotMd, Len(s) - 2)
  THEN SubSeq(s, 1, Len(s) - 3) \o sDotDocx
  ELSE s

\* "if (!options.output) options.output = ..."
defaultOutput(opts) ==
  IF falsy(opts[sOutput]) THEN [opts EXCEPT ![sOutput] = Str(replaceMd(opts[sInput].chars))]
  ELSE opts

\* parseArgs, when it returns
parseArgs(args) == defaultOutput(validateTheme(argsFrom(args, 1, defaultOptions)))


-----------------------------------------------------------------------------
(* The steps of the program                                                *)

MaxIters == 12     \* iterations of the loop of parse() that the model follows
ChunkSize == 16    \* bytes of a response that one 'data' event brings

\* main, up to the construction of the parser; parseArgs may end the process
MainStart ==
  /\ pc = "main"
  /\ IF noInput(argv)
     THEN /\ pc' = "exit"
          /\ UNCHANGED <<options, changelog, lines, pos, elements>>
     ELSE /\ options' = parseArgs(argv)
          /\ changelog' = extractChangelog(markdownRaw)
          /\ lines' = split(removeChangelog(markdownRaw), NL)
          /\ pos' = 0
          /\ elements' = <<>>
          /\ pc' = "parse"
  /\ UNCHANGED <<argv, configFile, markdownRaw, iters, files, kroki, mi, renderedMap,
                 requests, numberConfigs, ci, children, numberListRef,
                 currentSectionIndent, text, remaining, runs>>

\* one iteration of the while loop of parse()
ParseIteration ==
  /\ pc = "parse"
  /\ pos < Len(lines)
  /\ iters < MaxIters
  /\ \E r \in {parse(lines, pos, elements)} :
       pos' = r.pos /\ elements' = r.elements
  /\ iters' = iters + 1
  /\ UNCHANGED <<argv, configFile, options,
                 pc, markdownRaw, changelog, lines, files, kroki, mi, renderedMap,
                 requests, numberConfigs, ci, children, numberListRef,
                 currentSectionIndent, text, remaining, runs>>

\* "return this.elements"
ParseReturn ==
  /\ pc = "parse"
  /\ ~(pos < Len(lines))
  /\ pc' = "prerender"
  /\ UNCHANGED <<argv, configFile, options,
                 markdownRaw, changelog, lines, pos, elements, iters, files, kroki,
                 mi, renderedMap, requests, numberConfigs, ci, children,
                 numberListRef, currentSectionIndent, text, remaining, runs>>

\* the bytes of a response as the 'data' events bring them
chunksOf(body) ==
  IF Len(body) = 0 THEN <<>>
  ELSE IF Len(body) <= ChunkSize THEN <<body>>
  ELSE <<SubSeq(body, 1, ChunkSize), From(body, ChunkSize + 1)>>

\* renderMermaidToPng up to req.end(): the request and its pending promise
newRequest(diagramSource, mermaidTheme) ==
  [source |-> diagramSource, postData |-> postDataOf(diagramSource, mermaidTheme),
   phase |-> "sent", incoming |-> <<>>, chunks |-> <<>>,
   settled |-> FALSE, value |-> Null]

current == mermaidElements(elements)[mi + 1]
\* a variant that looks at the promise of the first request
awaitedFirst == requests[1]

\* the promise that main awaits: that of the request made last
awaited == requests[Len(requests)]

\* the loop of prerenderMermaidDiagrams meets a source not in the Map
PrerenderRequest ==
  /\ pc = "prerender"
  /\ mi < Len(mermaidElements(elements))
  /\ renderDue(renderedMap, current)
  /\ requests' = Append(requests, newRequest(current.content, themeMermaid(options[sTheme].chars)))
  /\ pc' = "await"
  /\ UNCHANGED <<argv, configFile, options,
                 markdownRaw, changelog, lines, pos, elements, iters, files, kroki,
                 mi, renderedMap, numberConfigs, ci, children, numberListRef,
                 currentSectionIndent, text, remaining, runs>>

\* the loop of prerenderMermaidDiagrams meets a source that the Map has
PrerenderSkip ==
  /\ pc = "prerender"
  /\ mi < Len(mermaidElements(elements))
  /\ ~renderDue(renderedMap, current)
  /\ mi' = mi + 1
  /\ UNCHANGED <<argv, configFile, options,
                 pc, markdownRaw, changelog, lines, pos, elements, iters, files,
                 kroki, renderedMap, requests, numberConfigs, ci, children,
                 numberListRef, currentSectionIndent, text, remaining, runs>>

\* the await returns: renderedMap.set(el.content, imageData)
PrerenderResume ==
  /\ pc = "await"
  /\ awaited.settled
  /\ renderedMap' = mapSet(renderedMap, current.content, awaited.value)
  /\ mi' = mi + 1
  /\ pc' = "prerender"
  /\ UNCHANGED <<argv, configFile, options,
                 markdownRaw, changelog, lines, pos, elements, iters, files, kroki,
                 requests, numberConfigs, ci, children, numberListRef,
                 currentSectionIndent, text, remaining, runs>>

\* "return renderedMap"
PrerenderReturn ==
  /\ pc = "prerender"
  /\ mi = Len(mermaidElements(elements))
  /\ pc' = "number"
  /\ UNCHANGED <<argv, configFile, options,
                 markdownRaw, changelog, lines, pos, elements, iters, files, kroki,
                 mi, renderedMap, requests, numberConfigs, ci, children,
                 numberListRef, currentSectionIndent, text, remaining, runs>>

\* An event of a request runs when main is suspended: at the await of a promise
\* that is still pending, or after the conversion.
eventsRun == (pc = "await" /\ ~awaited.settled) \/ pc = "done"

onlyRequests ==
  UNCHANGED <<argv, configFile, options,
              pc, markdownRaw, changelog, lines, pos, elements, iters, files, kroki,
              mi, renderedMap, numberConfigs, ci, children, numberListRef,
              currentSectionIndent, text, remaining, runs>>

\* the callback of https.request with a status other than 200
OnResponseError ==
  \E k \in 1..Len(requests) :
    /\ eventsRun
    /\ requests[k].phase = "sent"
    /\ requests' = [requests EXCEPT ![k] = [resolve(@, Null) EXCEPT !.phase = "unread"]]
    /\ onlyRequests

\* the callback of https.request with status 200
OnResponse ==
  \E k \in 1..Len(requests), body \in kroki :
    /\ eventsRun
    /\ requests[k].phase = "sent"
    /\ requests' = [requests EXCEPT ![k].phase = "receiving",
                                    ![k].incoming = chunksOf(body)]
    /\ onlyRequests

\* res.on('data')
OnData ==
  \E k \in 1..Len(requests) :
    /\ eventsRun
    /\ requests[k].phase = "receiving"
    /\ requests[k].incoming # <<>>
    /\ requests' = [requests EXCEPT ![k].chunks = Append(@, requests[k].incoming[1]),
                                    ![k].incoming = Tail(@)]
    /\ onlyRequests

\* res.on('end')
OnEnd ==
  \E k \in 1..Len(requests) :
    /\ eventsRun
    /\ requests[k].phase = "receiving"
    /\ requests[k].incoming = <<>>
    /\ requests' = [requests EXCEPT
                      ![k] = [resolve(@, Buffer(concat(@.chunks))) EXCEPT !.phase = "ended"]]
    /\ onlyRequests

\* req.on('error')
OnError ==
  \E k \in 1..Len(requests) :
    /\ eventsRun
    /\ requests[k].phase \in {"sent", "receiving", "unread", "destroyed"}
    /\ requests' = [requests EXCEPT ![k] = [resolve(@, Null) EXCEPT !.phase = "closed"]]
    /\ onlyRequests

\* req.on('timeout')
OnTimeout ==
  \E k \in 1..Len(requests) :
    /\ eventsRun
    /\ requests[k].phase \in {"sent", "receiving", "unread"}
    /\ requests' = [requests EXCEPT ![k] = [resolve(@, Null) EXCEPT !.phase = "destroyed"]]
    /\ onlyRequests

\* the loop of main that builds numberConfigs
BuildNumberConfigs ==
  /\ pc = "number"
  /\ numberConfigs' = numberConfigsFrom(elements, 1, 0, 0)
  /\ pc' = "convert"
  /\ UNCHANGED <<argv, configFile, options,
                 markdownRaw, changelog, lines, pos, elements, iters, files, kroki,
                 mi, renderedMap, requests, ci, children, numberListRef,
                 currentSectionIndent, text, remaining, runs>>

\* one iteration of the for loop of convertElements
ConvertElement ==
  /\ pc = "convert"
  /\ ci < Len(elements)
  /\ LET el == elements[ci + 1]
     IN  /\ children' = children \o paragraphsOf(el, numberListRef, currentSectionIndent,
                                                  renderedMap, files)
         /\ numberListRef' = countAfter(el, numberListRef)
         /\ currentSectionIndent' = indentAfter(el, currentSectionIndent)
  /\ ci' = ci + 1
  /\ UNCHANGED <<argv, configFile, options,
                 pc, markdownRaw, changelog, lines, pos, elements, iters, files, kroki,
                 mi, renderedMap, requests, numberConfigs, text, remaining, runs>>

\* "return children"
ConvertReturn ==
  /\ pc = "convert"
  /\ ci = Len(elements)
  /\ pc' = "done"
  /\ UNCHANGED <<argv, configFile, options,
                 markdownRaw, changelog, lines, pos, elements, iters, files, kroki,
                 mi, renderedMap, requests, numberConfigs, ci, children,
                 numberListRef, currentSectionIndent, text, remaining, runs>>

\* one iteration of the while loop of parseInlineMarkup
InlineIteration ==
  /\ pc = "inline"
  /\ Len(remaining) > 0
  /\ \E r \in {inlineStep(remaining, runs, TRUE, files)} :
       /\ remaining' = r.remaining
       /\ runs' = r.runs
       /\ pc' = IF r.stop THEN "inlineBreak" ELSE "inline"
  /\ UNCHANGED <<argv, configFile, options,
                 markdownRaw, changelog, lines, pos, elements, iters, files, kroki,
                 mi, renderedMap, requests, numberConfigs, ci, children,
                 numberListRef, currentSectionIndent, text>>

\* the return of parseInlineMarkup
InlineReturn ==
  /\ \/ pc = "inline" /\ ~(Len(remaining) > 0)
     \/ pc = "inlineBreak"
  /\ runs' = inlineResult(text, runs)
  /\ pc' = "inlineDone"
  /\ UNCHANGED <<argv, configFile, options,
                 markdownRaw, changelog, lines, pos, elements, iters, files, kroki,
                 mi, renderedMap, requests, numberConfigs, ci, children,
                 numberListRef, currentSectionIndent, text, remaining>>

\* extractChangelog, called on its own
ExtractChangelog ==
  /\ pc = "changelog"
  /\ changelog' = extractChangelog(markdownRaw)
  /\ pc' = "changelogDone"
  /\ UNCHANGED <<argv, configFile, options,
                 markdownRaw, lines, pos, elements, iters, files, kroki, mi,
                 renderedMap, requests, numberConfigs, ci, children, numberListRef,
                 currentSectionIndent, text, remaining, runs>>

\* parseArgs, called on its own
ParseArgs ==
  /\ pc = "args"
  /\ IF noInput(argv)
     THEN pc' = "exit" /\ UNCHANGED options
     ELSE pc' = "argsDone" /\ options' = parseArgs(argv)
  /\ UNCHANGED <<argv, configFile, markdownRaw, changelog, lines, pos, elements, iters,
                 files, kroki, mi, renderedMap, requests, numberConfigs, ci, children,
                 numberListRef, currentSectionIndent, text, remaining, runs>>


-----------------------------------------------------------------------------
(* Inputs                                                                  *)

MaxBlocks == 2     \* blocks of a document, the longer Scenarios apart
MaxLines == 3      \* lines of a text given to the parser alone

\* all sequences over S of length 0..n
RECURSIVE SeqsUpTo(_, _)
SeqsUpTo(S, n) ==
  IF n = 0 THEN {<<>>}
  ELSE LET shorter == SeqsUpTo(S, n - 1)
       IN  shorter \cup {Append(q, x) : q \in {r \in shorter : Len(r) = n - 1}, x \in S}

\* the blocks of a document, each a sequence of lines
bHeading1 == << <<"#", " ", "T">> >>
bHeading2 == << <<"#", "#", " ", "S">> >>
bHeading4 == << <<"#", "#", "#", "#", " ", "U">> >>
bParagraph == << <<"x", " ", "*", "*", "b", "*", "*">> >>
bNumbered == << <<"1", ".", " ", "a">>, <<"2", ".", " ", "b">>, <<" ", " ", "-", " ", "c">> >>
bBullets == << <<"-", " ", "a">>, <<" ", " ", "-", " ", "b">> >>
bMermaidA == << Fence \o sMermaid, <<"A">>, Fence >>
bMermaidB == << Fence \o sMermaid, <<"B">>, Fence >>
bCode == << Fence \o <<"j", "s">>, <<"c">>, <<>>, <<"d">>, Fence >>
bTable == << <<"a", "|", "b">>, <<"-", "|", "-">>, <<"c", "|", "d">> >>
bQuote == << <<">", " ", "q">> >>
bImage == << <<"!", "[", "i", "]", "(", "f", ")">> >>
bImgTag == << sImg \o <<" ">> \o sSrcEq \o <<"'", "f", "'", " ">> \o sWidthEq
              \o <<"5", "0", ">">> >>
bRule == << <<"-", "-", "-">> >>
bPagebreak == << sPagebreak \o <<">">> >>

Blocks == {bHeading1, bHeading2, bHeading4, bParagraph, bNumbered, bBullets,
           bMermaidA, bMermaidB, bCode, bTable, bQuote, bImage, bImgTag, bRule,
           bPagebreak}

\* the lines of a document: its blocks with an empty line between two
RECURSIVE linesOf(_)
linesOf(blocks) ==
  IF Len(blocks) = 0 THEN <<>>
  ELSE IF Len(blocks) = 1 THEN blocks[1]
  ELSE blocks[1] \o << <<>> >> \o linesOf(Tail(blocks))

\* the blocks of the end-to-end example: a paragraph that ends with
\* "**bold** and *italic*" and a list of two items indented by two spaces
sBoldAndItalic == <<"*", "*", "b", "o", "l", "d", "*", "*", " ", "a", "n", "d", " ",
                    "*", "i", "t", "a", "l", "i", "c", "*">>
bMarkupA == << <<"H", "i", " ">> \o sBoldAndItalic >>
bMarkupB == << <<"a", "_", "b", ",", " ">> \o sBoldAndItalic >>
bIndentedA == << <<" ", " ", "-", " ", "a">>, <<" ", " ", "-", " ", "b">> >>
bIndentedB == << <<" ", " ", "*", " ", "c", "d">>, <<" ", " ", "+", " ", BT, "e", BT>> >>

\* longer documents
Scenarios ==
  {<<bHeading1, p, l>> : p \in {bMarkupA, bMarkupB}, l \in {bIndentedA, bIndentedB}}
  \cup {<<bNumbered, bHeading2, bNumbered>>, <<bHeading2, bNumbered, bNumbered>>,
        <<bHeading2, bHeading1, bParagraph>>, <<bHeading4, bBullets, bTable>>,
        <<bMermaidA, bParagraph, bMermaidA>>, <<bMermaidA, bMermaidB, bMermaidA>>,
        <<bHeading2, bMermaidA, bMermaidB>>, <<bMermaidB, bCode, bMermaidA, bImage>>}

Documents ==
  {join(linesOf(bs), <<NL>>) : bs \in SeqsUpTo(Blocks, MaxBlocks) \cup Scenarios}

Paths == {<<"f">>}
FileStates == {"present", "absent", "unreadable"}

\* the bytes of a PNG of the given size: signature, IHDR length and tag, sizes
uint32(n) == <<n \div 16777216, (n \div 65536) % 256, (n \div 256) % 256, n % 256>>
Png(w, h) ==
  <<137, 80, 78, 71, 13, 10, 26, 10, 0, 0, 0, 13, 73, 72, 68, 82>> \o uint32(w) \o uint32(h)
NotPng == <<60, 104, 49, 62>>

sInputName == <<"i", ".", "m", "d">>

\* the command line names the input file and nothing else; no settings file
PlainRun == argv = <<sInputName>> /\ configFile = <<>> /\ options = <<>>

\* what does not depend on the input
InitRest ==
  /\ changelog = NoChangelog
  /\ pos = 0
  /\ elements = <<>>
  /\ iters = 0
  /\ mi = 0
  /\ renderedMap = <<>>
  /\ requests = <<>>
  /\ numberConfigs = <<>>
  /\ ci = 0
  /\ children = <<>>
  /\ numberListRef = 0
  /\ currentSectionIndent = 0

\* parseInlineMarkup is not entered on its own
NoInline == text = <<>> /\ remaining = <<>> /\ runs = <<>>

\* main is entered with the text of the input file
Init ==
  /\ pc = "main"
  /\ markdownRaw \in Documents
  /\ files \in [Paths -> FileStates]
  /\ kroki = {Png(640, 480), NotPng}
  /\ lines = <<>>
  /\ PlainRun
  /\ InitRest
  /\ NoInline

Next ==
  \/ MainStart
  \/ ParseIteration
  \/ ParseReturn
  \/ PrerenderRequest
  \/ PrerenderSkip
  \/ PrerenderResume
  \/ PrerenderReturn
  \/ OnResponseError
  \/ OnResponse
  \/ OnData
  \/ OnEnd
  \/ OnError
  \/ OnTimeout
  \/ BuildNumberConfigs
  \/ ConvertElement
  \/ ConvertReturn

Spec == Init /\ [][Next]_vars


-----------------------------------------------------------------------------
(* The parser alone: parse() entered with this.lines given                 *)

MaxIndent == 8     \* white space in front of the marker of a list item

lPipe == <<"a", "|", "b">>
lPipe2 == <<"c", "|", "d">>
lEmpty == <<>>
lSpaces == <<" ", " ">>
lSeparator == <<"-", "|", "-">>
lBoundedSeparator == <<"|", ":", "-", "|">>
lWord == <<"x">>
PipeLines == {lPipe, lPipe2, lEmpty, lSpaces, lSeparator, lBoundedSeparator, lWord}

\* a list item in the given width of white space
indented(w, item) == [k \in 1..w |-> " "] \o item
lNumbered == <<"1", ".", " ", "n">>
ListLines == {indented(w, <<"-", " ", "i">>) : w \in 0..MaxIndent} \cup {lNumbered}

\* this.lines is markdown.split('\n'): one line at least
ParseTexts ==
  (SeqsUpTo(PipeLines, MaxLines) \cup SeqsUpTo(ListLines, MaxLines)) \ {<<>>}

InitParse ==
  /\ pc = "parse"
  /\ lines \in ParseTexts
  /\ markdownRaw = join(lines, <<NL>>)
  /\ files = [f \in Paths |-> "present"]
  /\ kroki = {}
  /\ PlainRun
  /\ InitRest
  /\ NoInline

NextParse == ParseIteration \/ ParseReturn

SpecParse == InitParse /\ [][NextParse]_vars


-----------------------------------------------------------------------------
(* parseInlineMarkup alone, entered with a text                            *)

MaxFragments == 2  \* fragments of a text given to parseInlineMarkup

fPlain == <<"a">>
fTriple == <<"*", "*", "*", "d", "*", "*", "*">>
fDouble == <<"*", "*", "b", "*", "*">>
fSingle == <<"*", "c", "*">>
fUnder2 == <<"_", "_", "e", "_", "_">>
fUnder == <<"_", "f", "_">>
fStrike == <<"~", "~", "g", "~", "~">>
fCode == <<BT, "h", BT>>
fBreak == <<"<", "b", "r", ">">>
fImage == sImg \o <<" ">> \o sSrcEq \o <<"'", "f", "'", ">">>
fStar == <<"*">>
Fragments == {fPlain, fTriple, fDouble, fSingle, fUnder2, fUnder, fStrike, fCode,
              fBreak, fImage, fStar}

InlineTexts == {join(fs, <<>>) : fs \in SeqsUpTo(Fragments, MaxFragments)}

InitInline ==
  /\ pc = "inline"
  /\ text \in InlineTexts
  /\ remaining = text
  /\ runs = <<>>
  /\ markdownRaw = text
  /\ lines = <<>>
  /\ files \in [Paths -> FileStates]
  /\ kroki = {}
  /\ PlainRun
  /\ InitRest

NextInline == InlineIteration \/ InlineReturn

SpecInline == InitInline /\ [][NextInline]_vars


-----------------------------------------------------------------------------
(* extractChangelog alone, entered with a markdown text                    *)

MaxRows == 2       \* data rows of a change history table

sVersion == <<"V", "e", "r", "s", "i", "o", "n">>
sDate == <<"D", "a", "t", "e">>
sChanges == <<"C", "h", "a", "n", "g", "e", "s">>
sDateJa == <<"U+5909", "U+66F4", "U+65E5", "U+4ED8">>       \* the date of the change
sReasonJa == <<"U+5909", "U+66F4", "U+4E8B", "U+7531">>     \* the reason of the change

\* the header rows of the READMEs, as cells
headerEn == <<sVersion, sDate, sChanges>>
headerJa == <<sVersionJa, sDateJa, sReasonJa>>
Headers == {headerEn, headerJa}

rowA == << <<"1", ".", "0">>, <<"2", "0", "2", "4">>, <<"n", "e", "w">> >>
rowB == << <<"1", ".", "1">>, <<"2", "0", "2", "5">>, <<"f", "i", "x">> >>
DataRows == {rowA, rowB}

\* "| a | b | c |"
tableLine(cells) == <<"|", " ">> \o join(cells, <<" ", "|", " ">>) \o <<" ", "|">>
separatorLine == <<"|", "-", "-", "-", "|", "-", "-", "-", "|", "-", "-", "-", "|">>

openMarkers == {sOpen \o <<" ">> \o sChangelog \o <<" ">> \o sClose,
                sOpen \o sChangelog \o sClose}
closeMarker == sOpen \o <<" ", "/">> \o sChangelog \o <<" ">> \o sClose

\* a CHANGELOG block: header row, separator row and data rows between the markers
changelogBlock(open, header, rows) ==
  join(<<open, tableLine(header), separatorLine>>
       \o [k \in 1..Len(rows) |-> tableLine(rows[k])] \o <<closeMarker>>, <<NL>>)

Prefixes == {<<>>, <<"#", " ", "T", NL, NL>>}
Suffixes == {<<>>, <<NL, "x">>}

ChangelogTexts ==
  {before \o changelogBlock(open, header, rows) \o after :
     before \in Prefixes, open \in openMarkers, header \in Headers,
     rows \in SeqsUpTo(DataRows, MaxRows), after \in Suffixes}

InitChangelog ==
  /\ pc = "changelog"
  /\ markdownRaw \in ChangelogTexts
  /\ lines = <<>>
  /\ files = [f \in Paths |-> "present"]
  /\ kroki = {}
  /\ PlainRun
  /\ InitRest
  /\ NoInline

NextChangelog == ExtractChangelog

SpecChangelog == InitChangelog /\ [][NextChangelog]_vars

\* The program on documents with one diagram, the service answering with a
\* raster of any of the sizes below or with a body that is not a PNG
RasterWidths == {1, 300, 577, 578, 601, 602, 640, 1200, 3000}
RasterHeights == {1, 480, 600, 601, 2400}
Rasters == {Png(w, h) : w \in RasterWidths, h \in RasterHeights} \cup {NotPng}

ScaleScenarios ==
  {<<bMermaidA>>, <<bHeading2, bMermaidA>>, <<bHeading1, bMermaidA, bMermaidA>>}

InitScale ==
  /\ pc = "main"
  /\ markdownRaw \in {join(linesOf(bs), <<NL>>) : bs \in ScaleScenarios}
  /\ files = [p \in Paths |-> "present"]
  /\ kroki = Rasters
  /\ lines = <<>>
  /\ PlainRun
  /\ InitRest
  /\ NoInline

SpecScale == InitScale /\ [][Next]_vars

\* The parser on lines that open a list and hold no item of it
lMarkerOnly == <<"-", " ">>
lNumberOnly == <<"1", ".", " ">>
lIndentedNumber == <<" ", " ", "1", ".", " ", "x">>
lItem == <<"-", " ", "i">>
MalformedLines == {lMarkerOnly, lNumberOnly, lIndentedNumber, lItem, lWord}
MalformedTexts == SeqsUpTo(MalformedLines, MaxLines) \ {<<>>}

InitMalformed ==
  /\ pc = "parse"
  /\ lines \in MalformedTexts
  /\ markdownRaw = join(lines, <<NL>>)
  /\ files = [f \in Paths |-> "present"]
  /\ kroki = {}
  /\ PlainRun
  /\ InitRest
  /\ NoInline

SpecMalformed == InitMalformed /\ [][NextParse]_vars

\* main from its entry to the return of parse(), on texts of lines that the
\* documentation gives a meaning: the forms of a page break and the markers of
\* the range to convert
lDivPagebreak ==
  <<"<", "d", "i", "v", " ", "s", "t", "y", "l", "e", "=", "\"", "p", "a",
    "g", "e", "-", "b", "r", "e", "a", "k", "-", "b", "e", "f", "o", "r",
    "e", ":", "a", "l", "w", "a", "y", "s", "\"", ">", "<", "/", "d", "i",
    "v", ">">>
lCommentPagebreak ==
  <<"<", "!", "-", "-", " ", "m", "d", "2", "m", "d", "o", "c", "x", ":",
    "p", "a", "g", "e", "b", "r", "e", "a", "k", " ", "-", "-", ">">>
lPagebreakTag == sPagebreak \o <<">">>
lStart ==
  <<"<", "!", "-", "-", " ", "m", "d", "2", "m", "d", "o", "c", "x", ":",
    "s", "t", "a", "r", "t", " ", "-", "-", ">">>
lEnd ==
  <<"<", "!", "-", "-", " ", "m", "d", "2", "m", "d", "o", "c", "x", ":",
    "e", "n", "d", " ", "-", "-", ">">>
lOther == <<"y">>
FrontLines == {lDivPagebreak, lCommentPagebreak, lPagebreakTag, lStart, lEnd, lEmpty,
               lWord, lOther}
FrontTexts == {join(ls, <<NL>>) : ls \in SeqsUpTo(FrontLines, MaxLines) \ {<<>>}}

InitFront ==
  /\ pc = "main"
  /\ markdownRaw \in FrontTexts
  /\ files = [f \in Paths |-> "present"]
  /\ kroki = {}
  /\ lines = <<>>
  /\ PlainRun
  /\ InitRest
  /\ NoInline

NextFront == MainStart \/ ParseIteration \/ ParseReturn

SpecFront == InitFront /\ [][NextFront]_vars

\* parseArgs alone, entered with a command line and a settings file
MaxOptions == 2    \* options given on the command line

sTitle == <<"t", "i", "t", "l", "e">>
sHrPagebreak == <<"h", "r", "-", "p", "a", "g", "e", "b", "r", "e", "a", "k">>
sFalse == <<"f", "a", "l", "s", "e">>
sTrue == <<"t", "r", "u", "e">>
ThemeNames == {sBlue, sOrange, sGreen, <<"r", "e", "d">>, <<"c", "o", "n", "s", "t", "r", "u", "c", "t", "o", "r">>, <<>>}
OptionPairs ==
  {<<sDashes \o sTheme, v>> : v \in ThemeNames}
  \cup {<<sDashes \o sTitle, <<"T">> >>, <<sDashes \o sHrPagebreak, sFalse>>}

\* the input file then the options, no argument at all, or an option that
\* lacks its value
ArgLists ==
  {<<sInputName>> \o concat(ps) : ps \in SeqsUpTo(OptionPairs, MaxOptions)}
  \cup {<<>>, <<sInputName, sDashes \o sTheme>>}

ConfigFiles ==
  {<<>>,
   [k \in {sTitle} |-> Str(<<"C">>)],
   [k \in {sTheme} |-> Str(sOrange)],
   [k \in {sTitle, sHrPagebreak} |-> IF k = sTitle THEN Str(<<"C">>) ELSE Str(sFalse)]}

InitArgs ==
  /\ pc = "args"
  /\ argv \in ArgLists
  /\ configFile \in ConfigFiles
  /\ options = <<>>
  /\ markdownRaw = <<>>
  /\ files = [f \in Paths |-> "present"]
  /\ kroki = {}
  /\ lines = <<>>
  /\ InitRest
  /\ NoInline

NextArgs == ParseArgs

SpecArgs == InitArgs /\ [][NextArgs]_vars

\* The program on documents without diagrams, with and without the
\* hr-pagebreak option on the command line and in the settings file
bRuleStars == << <<"*", "*", "*">> >>
PlainBlocks == {bRule, bRuleStars, bParagraph, bHeading2, bPagebreak}
PlainDocuments ==
  {join(linesOf(bs), <<NL>>) : bs \in SeqsUpTo(PlainBlocks, MaxBlocks) \ {<<>>}}

InitPlain ==
  /\ pc = "main"
  /\ markdownRaw \in PlainDocuments
  /\ argv \in {<<sInputName>>, <<sInputName, sDashes \o sHrPagebreak, sFalse>>, <<>>}
  /\ configFile \in {<<>>, [k \in {sHrPagebreak} |-> Str(sFalse)]}
  /\ options = <<>>
  /\ files = [f \in Paths |-> "present"]
  /\ kroki = {}
  /\ lines = <<>>
  /\ InitRest
  /\ NoInline

NextPlain ==
  \/ MainStart
  \/ ParseIteration
  \/ ParseReturn
  \/ PrerenderReturn
  \/ BuildNumberConfigs
  \/ ConvertElement
  \/ ConvertReturn

SpecPlain == InitPlain /\ [][NextPlain]_vars

\* The parser on lines that several tests of parse() match, and on the lines
\* each test of parse() matches, below a line of plain text or not
MaxOrderLines == 2     \* lines of a text of this part
lWord2 == <<"y", " ", "z">>
lHash == <<"#", "x">>
lHeadingPipe == <<"#", " ", "a", "|", "b">>
lFencePipe == Fence \o <<"|">>
lImagePipe == <<"!", "[", "a", "|", "b", "]", "(", "f", ")">>
lImgTagPipe == sImg \o <<" ">> \o sSrcEq \o <<"'", "a", "|", "b", "'", ">">>
lItemPipe == <<"-", " ", "a", "|", "b">>
lNumberPipe == <<"1", ".", " ", "a", "|", "b">>
lQuotePipe == <<">", "a", "|", "b">>
lIndentedItem == <<" ", " ", "-", " ", "i">>
lRule == <<"-", "-", "-">>
OrderLines ==
  {lEmpty, lWord, lWord2, lHash, lHeadingPipe, lFencePipe, lPagebreakTag, lImagePipe,
   lImgTagPipe, lPipe, lSeparator, lItemPipe, lNumberPipe, lQuotePipe, lIndentedItem,
   lRule}
OrderTexts == SeqsUpTo(OrderLines, MaxOrderLines) \ {<<>>}

InitOrder ==
  /\ pc = "parse"
  /\ lines \in OrderTexts
  /\ markdownRaw = join(lines, <<NL>>)
  /\ files = [f \in Paths |-> "present"]
  /\ kroki = {}
  /\ PlainRun
  /\ InitRest
  /\ NoInline

SpecOrder == InitOrder /\ [][NextParse]_vars

\* The program on documents of diagrams, from the rendering of the diagrams
\* to the conversion. The runtime runs main up to its next await and resumes
\* it when the awaited promise has resolved; while a request is pending on an
\* open socket node delivers a response, its data and end, an error, or, the
\* socket having been idle for the time of the timeout option, the timeout
\* event. A step of these that can be taken is therefore taken in the end.
DiagramBlocks == {bMermaidA, bMermaidB, bParagraph}
DiagramDocuments ==
  {join(linesOf(bs), <<NL>>) :
     bs \in SeqsUpTo(DiagramBlocks, MaxBlocks) \cup {<<bMermaidA, bMermaidB, bMermaidA>>}}

InitLive ==
  /\ pc = "main"
  /\ markdownRaw \in DiagramDocuments
  /\ files = [f \in Paths |-> "present"]
  /\ kroki = {Png(640, 480), NotPng}
  /\ lines = <<>>
  /\ PlainRun
  /\ InitRest
  /\ NoInline

\* main between the entry of prerenderMermaidDiagrams and convertElements
mainRuns ==
  \/ PrerenderRequest
  \/ PrerenderSkip
  \/ PrerenderResume
  \/ PrerenderReturn
  \/ BuildNumberConfigs

\* the callbacks of the requests
eventLoop ==
  \/ OnResponseError
  \/ OnResponse
  \/ OnData
  \/ OnEnd
  \/ OnError
  \/ OnTimeout

SpecLive == InitLive /\ [][Next]_vars /\ WF_vars(mainRuns) /\ WF_vars(eventLoop)

\* The parser on fenced code, on tables and on blockquotes: texts of lines of
\* one of the three families
MaxBlockLines == 4     \* lines of a text of this part

lFence == Fence
lFenceLang == Fence \o <<" ", "j", "s", " ">>
lIndentedFence == <<" ">> \o Fence
CodeLines == {lFence, lFenceLang, lIndentedFence, lWord, lEmpty, lSpaces}

lOuterPipes == <<"|", " ", "a", " ", "|", "|", "b", "|">>
lTrailingPipe == <<"c", "|">>
lOnlyPipe == <<"|">>
TableLines == {lOuterPipes, lTrailingPipe, lOnlyPipe, lPipe, lSeparator, lWord, lEmpty}

lQuote == <<">", "q">>
lQuoteSpace == <<">", " ", "q">>
lQuoteSpaces == <<">", " ", " ", "q">>
lQuoteTwice == <<">", ">", "r">>
lQuoteOnly == <<">">>
QuoteLines == {lQuote, lQuoteSpace, lQuoteSpaces, lQuoteTwice, lQuoteOnly, lWord, lEmpty}

BlockTexts ==
  (SeqsUpTo(CodeLines, MaxBlockLines) \cup SeqsUpTo(TableLines, MaxBlockLines)
   \cup SeqsUpTo(QuoteLines, MaxBlockLines)) \ {<<>>}

InitBlocks ==
  /\ pc = "parse"
  /\ lines \in BlockTexts
  /\ markdownRaw = join(lines, <<NL>>)
  /\ files = [f \in Paths |-> "present"]
  /\ kroki = {}
  /\ PlainRun
  /\ InitRest
  /\ NoInline

SpecBlocks == InitBlocks /\ [][NextParse]_vars

\* extractChangelog on blocks of any lines: rows with and without outer
\* delimiters, separator rows of both shapes, rows of fewer than three cells
bareSeparator == <<"-", "-", "-", "|", "-", "-", "-", "|", "-", "-", "-">>
bareRow == <<"1", ".", "1", "|", "2", "0", "2", "5", "|", "f", "i", "x">>
shortRow == <<"|", " ", "a", " ", "|", " ", "b", " ", "|">>
paddedRow == <<" ">> \o tableLine(rowA) \o <<" ">>
HistoryLines ==
  {tableLine(headerJa), separatorLine, bareSeparator, lSeparator, tableLine(rowA),
   paddedRow, bareRow, shortRow, lWord}

\* the block of the given lines between the markers
historyBlock(ls) ==
  join(<<sOpen \o <<" ">> \o sChangelog \o <<" ">> \o sClose>> \o ls \o <<closeMarker>>, <<NL>>)

HistoryTexts == {historyBlock(ls) : ls \in SeqsUpTo(HistoryLines, MaxLines)}

InitHistory ==
  /\ pc = "changelog"
  /\ markdownRaw \in HistoryTexts
  /\ lines = <<>>
  /\ files = [f \in Paths |-> "present"]
  /\ kroki = {}
  /\ PlainRun
  /\ InitRest
  /\ NoInline

SpecHistory == InitHistory /\ [][NextChangelog]_vars

\* The program on documents of images: image lines, and paragraphs whose
\* second line holds one <img> tag or two; the file is there, is not there, or
\* cannot be read
bInlineImage == << <<"x">>, fImage \o <<" ", "y">> >>
bInlineImages == << <<"x">>, fImage \o <<"y">> \o fImage >>
ImageBlocks == {bImage, bImgTag, bInlineImage, bInlineImages, bHeading2, bParagraph}
ImageDocuments ==
  {join(linesOf(bs), <<NL>>) : bs \in SeqsUpTo(ImageBlocks, MaxBlocks) \ {<<>>}}

InitImages ==
  /\ pc = "main"
  /\ markdownRaw \in ImageDocuments
  /\ files \in [Paths -> FileStates]
  /\ kroki = {}
  /\ lines = <<>>
  /\ PlainRun
  /\ InitRest
  /\ NoInline

SpecImages == InitImages /\ [][NextPlain]_vars

\* The program on documents of diagrams with and without an init directive
\* of their own, under each theme the command line can select
bMermaidInit == << Fence \o sMermaid, sInit \o <<"x">>, Fence >>
bMermaidLate == << Fence \o sMermaid, <<"C">>, <<" ">> \o sInit, Fence >>
ThemedBlocks == {bMermaidA, bMermaidInit, bMermaidLate}
ThemedDocuments ==
  {join(linesOf(bs), <<NL>>) : bs \in SeqsUpTo(ThemedBlocks, MaxBlocks) \ {<<>>}}
ThemedRuns ==
  {<<sInputName>>} \cup
  {<<sInputName, sDashes \o sTheme, t>> : t \in {sBlue, sOrange, sGreen, <<"r", "e", "d">>}}

InitThemes ==
  /\ pc = "main"
  /\ markdownRaw \in ThemedDocuments
  /\ argv \in ThemedRuns
  /\ configFile = <<>>
  /\ options = <<>>
  /\ files = [f \in Paths |-> "present"]
  /\ kroki = {Png(640, 480)}
  /\ lines = <<>>
  /\ InitRest
  /\ NoInline

SpecThemes == InitThemes /\ [][Next]_vars


-----------------------------------------------------------------------------
(* Properties of the parser                                                *)

\* C1: in parse(), a line that holds "|" opens a table only when the line after
\* it is a separator row, a line of dashes, colons, pipes and spaces that holds
\* a dash, a colon or a pipe; and a line that holds "|", matches none of the
\* tests made before the table test, and has no next line or a next line that
\* is empty, white space only or otherwise no separator row, opens no table and
\* goes into a paragraph.
C1_TableOnlyAfterSeparatorRow ==
  [][(pc = "parse" /\ iters' = iters + 1) =>
       LET line == lines[pos + 1]
           separatorRow(l) ==
             /\ \A k \in 1..Len(l) : l[k] \in {"-", ":", "|", " "}
             /\ \E k \in 1..Len(l) : l[k] \in {"-", ":", "|"}
           separated == pos + 1 < Len(lines) /\ separatorRow(lines[pos + 2])
           earlier ==
             \/ isBlank(line) \/ startsWith(line, Fence) \/ pagebreakMatch(line)
             \/ headingMatch(line) \/ imageMatch(line) \/ imgTagMatch(line).found
           pushed == Len(elements') = Len(elements) + 1
           last == elements'[Len(elements')]
       IN  /\ (pushed /\ last.type = "table") => (includes(line, "|") /\ separated)
           /\ (includes(line, "|") /\ ~earlier /\ ~separated) =>
                (pushed /\ last.type = "paragraph" /\ startsWith(last.text, line))
    ]_vars

\* C2: every iteration of the loop of parseInlineMarkup consumes the match with
\* the smallest start index among the break tag, the image tag and the seven
\* text patterns, and of the matches that start at that index the one checked
\* first: break, image, then the patterns in the order ***, **, *, __, _, ~~
\* and the backtick. The text before the match goes out as a plain run, then
\* the run of the match; with no match the rest goes out as a plain run.
C2_EarliestMatchWins ==
  [][(pc = "inline" /\ pc' \in {"inline", "inlineBreak"}) =>
       LET c == candidates(remaining)
           found == {k \in 1..Len(c) : c[k].found}
           first == {k \in found :
                       \A j \in found :
                         \/ c[k].index < c[j].index
                         \/ c[k].index = c[j].index /\ k <= j}
           runOf(k) ==
             IF k = 1 THEN [type |-> "break"]
             ELSE IF k = 2 THEN inlineImageRun(c[2], TRUE, files)
             ELSE TextRun(c[k].text, patterns[k - 2].style, "")
           pushed(k) ==
             IF c[k].index = 0 THEN <<runOf(k)>>
             ELSE <<TextRun(SubSeq(remaining, 1, c[k].index), NoStyle, ""), runOf(k)>>
       IN  /\ [k \in 1..Len(patterns) |-> patterns[k].delim]
                = << <<"*", "*", "*">>, <<"*", "*">>, <<"*">>,
                    <<"_", "_">>, <<"_">>, <<"~", "~">>, <<BT>> >>
           /\ c[1].type = "break" /\ c[2].type = "image"
           /\ IF found = {}
              THEN /\ pc' = "inlineBreak"
                   /\ remaining' = remaining
                   /\ runs' = Append(runs, TextRun(remaining, NoStyle, ""))
              ELSE \E k \in first :
                     /\ pc' = "inline"
                     /\ remaining' = From(remaining, c[k].index + c[k].length + 1)
                     /\ runs' = runs \o pushed(k)
    ]_vars

\* "***d*****b**" has been taken apart: at index 0 the patterns ***, ** and *
\* all match, and the first of them gave the run
C2_Witness ==
  /\ pc = "inlineDone"
  /\ text = fTriple \o fDouble
  /\ runs = <<TextRun(<<"d">>, patterns[1].style, ""),
              TextRun(<<"b">>, patterns[2].style, "")>>
  /\ \A k \in 3..5 : candidates(text)[k].found /\ candidates(text)[k].index = 0

\* C6: for a CHANGELOG block of a header row (the English or the Japanese one of
\* the READMEs), a separator row and n data rows of three cells, extractChangelog
\* returns the n data rows as records, in order, never the header row, and null
\* for n = 0.
C6_ChangelogDataRows ==
  pc = "changelogDone" =>
    \A before \in Prefixes, open \in openMarkers, header \in Headers,
       rows \in SeqsUpTo(DataRows, MaxRows), after \in Suffixes :
      markdownRaw = before \o changelogBlock(open, header, rows) \o after =>
        changelog =
          IF Len(rows) = 0 THEN NoChangelog
          ELSE [isNull |-> FALSE,
                rows |-> [k \in 1..Len(rows) |->
                            [version |-> rows[k][1], date |-> rows[k][2],
                             description |-> rows[k][3]]]]

-----------------------------------------------------------------------------
(* Properties of the program from main to the end of convertElements      *)

\* C3: prerenderMermaidDiagrams sends one request for each distinct mermaid
\* source: no two requests carry the same source, every request carries the
\* content of a mermaid block, and when the loop has ended the number of
\* requests is the number of distinct sources, also when a rendering failed.
C3_OneRequestPerSource ==
  LET sources == {mermaidElements(elements)[k].content :
                    k \in 1..Len(mermaidElements(elements))}
  IN  /\ \A i, j \in 1..Len(requests) :
           requests[i].source = requests[j].source => i = j
      /\ \A i \in 1..Len(requests) : requests[i].source \in sources
      /\ pc \in {"number", "convert", "done"} => Len(requests) = Cardinality(sources)

\* a source that occurs twice was requested once, and that rendering failed
C3_Witness ==
  /\ pc = "done"
  /\ Len(mermaidElements(elements)) = 2
  /\ mermaidElements(elements)[1].content = mermaidElements(elements)[2].content
  /\ Len(requests) = 1
  /\ requests[1].settled /\ requests[1].value.isNull
  /\ Cardinality({k \in 1..Len(children) : children[k].kind = "mermaidWarning"}) = 2

\* C7: the document of a level-1 heading, a paragraph of plain text followed by
\* "**bold** and *italic*" and a bullet list of two items in two spaces each
\* gives, when main is through: a heading of level 1 at indent 0; a paragraph
\* whose runs are the plain text, bold "bold", plain " and ", italic "italic";
\* one list of two items of level 1, laid out under the structural indent 0.
C7_EndToEnd ==
  \A p \in {bMarkupA, bMarkupB}, l \in {bIndentedA, bIndentedB} :
    (pc = "done" /\ markdownRaw = join(linesOf(<<bHeading1, p, l>>), <<NL>>)) =>
      LET plain(t) == [type |-> "text", text |-> t, color |-> "",
                       style |-> [bold |-> FALSE, italics |-> FALSE, strike |-> FALSE,
                                  shading |-> FALSE]]
          bold(t) == [plain(t) EXCEPT !.style.bold = TRUE]
          italic(t) == [plain(t) EXCEPT !.style.italics = TRUE]
      IN  /\ Len(elements) = 3
          /\ elements[1].type = "heading" /\ elements[1].level = 1
          /\ elements[2].type = "paragraph"
          /\ elements[3].type = "list" /\ elements[3].listType = "bullet"
          /\ Len(elements[3].items) = 2
          /\ \A k \in 1..2 : elements[3].items[k].level = 1
          /\ Len(children) = 4
          /\ children[1].kind = "heading" /\ children[1].level = 1
          /\ children[1].indent = 0
          /\ children[2].kind = "paragraph" /\ children[2].indent = 0
          /\ children[2].runs =
               <<plain(SubSeq(p[1], 1, Len(p[1]) - Len(sBoldAndItalic))),
                 bold(<<"b", "o", "l", "d">>), plain(<<" ", "a", "n", "d", " ">>),
                 italic(<<"i", "t", "a", "l", "i", "c">>)>>
          /\ \A k \in 3..4 : children[k].kind = "bullet" /\ children[k].indent = 720 + 360
          /\ currentSectionIndent = 0

\* the document has gone through main
C7_Witness ==
  /\ pc = "done"
  /\ markdownRaw = join(linesOf(<<bHeading1, bMarkupA, bIndentedA>>), <<NL>>)
  /\ Len(children) = 4
  /\ Len(children[2].runs) = 4
  /\ children[2].runs[2].style.bold /\ children[2].runs[4].style.italics
  /\ elements[3].items[2].level = 1


\* C8: a failed rendering never stops the program. Each of the three failures
\* of a pending request (a status other than 200, an 'error' event, a 'timeout'
\* event) resolves its promise with null; the await stores the value of the
\* promise, null included, under the source and the loop goes on to the next
\* diagram; convertElements pushes one warning paragraph for every mermaid block
\* whose Map entry is null, and what it pushes for any other element does not
\* depend on the Map.
C8_RenderingFailureNotFatal ==
  [][/\ \A k \in 1..Len(requests) :
          (/\ Len(requests') = Len(requests)
           /\ ~requests[k].settled
           /\ requests'[k].phase # requests[k].phase
           /\ requests'[k].phase \in {"unread", "closed", "destroyed"}) =>
            (requests'[k].settled /\ requests'[k].value.isNull)
     /\ (pc = "await" /\ pc' = "prerender") =>
          /\ mapHas(renderedMap', current.content)
          /\ renderedMap'[current.content] = awaited.value
          /\ \A key \in DOMAIN renderedMap : renderedMap'[key] = renderedMap[key]
          /\ mi' = mi + 1
     /\ (pc = "convert" /\ ci' = ci + 1) =>
          LET el == elements[ci + 1]
              pushed == SubSeq(children', Len(children) + 1, Len(children'))
          IN  IF el.type = "code" /\ el.language = sMermaid
              THEN mapGet(renderedMap, el.content).isNull =>
                     pushed = <<[kind |-> "mermaidWarning",
                                 indent |-> currentSectionIndent]>>
              ELSE pushed = paragraphsOf(el, numberListRef, currentSectionIndent,
                                         <<>>, files)
    ]_vars

\* two renderings have failed, one by its status and one by a timeout, and main
\* is through: a warning stands for each diagram and the code block between
\* them is laid out
C8_Witness ==
  /\ pc = "done"
  /\ Len(requests) = 2
  /\ requests[1].phase = "unread" /\ requests[1].value.isNull
  /\ requests[2].phase = "destroyed" /\ requests[2].value.isNull
  /\ \A key \in DOMAIN renderedMap : renderedMap[key].isNull
  /\ Cardinality({k \in 1..Len(children) : children[k].kind = "mermaidWarning"}) = 2
  /\ \E k \in 1..Len(children) : children[k].kind = "code"

\* C9: the structural indent of convertElements is 0 at the start, a heading of
\* level 1 sets it to 0 and a heading of level 2..6 to 360, no other element
\* changes it; it is always 0 or 360, and every element that is no heading is
\* laid out with the value of the last heading before it (0 if there is none).
C9_StructuralIndent ==
  /\ currentSectionIndent = 0
  /\ [][/\ (pc' = "convert" /\ ci' = 0) => currentSectionIndent' = 0
        /\ currentSectionIndent' \in {0, 360}
        /\ (pc = "convert" /\ ci' = ci + 1) =>
             LET el == elements[ci + 1]
                 headings == {k \in 1..ci : elements[k].type = "heading"}
                 active == IF headings = {} THEN 0
                           ELSE IF elements[Max(headings)].level = 1 THEN 0 ELSE 360
                 pushed == SubSeq(children', Len(children) + 1, Len(children'))
                 offset(c) == CASE c.kind = "code" -> 360
                                [] c.kind = "blockquote" -> 720
                                [] OTHER -> 0
             IN  IF el.type = "heading"
                 THEN /\ el.level = 1 => currentSectionIndent' = 0
                      /\ el.level \in 2..6 => currentSectionIndent' = 360
                 ELSE /\ currentSectionIndent' = currentSectionIndent
                      /\ currentSectionIndent = active
                      /\ \A k \in 1..Len(pushed) :
                           CASE pushed[k].kind = "pagebreak" -> TRUE
                             [] pushed[k].kind = "numbered" ->
                                  pushed[k].reference =
                                    listRefOf(numberListRef + 1, active)
                             [] pushed[k].kind = "bullet" ->
                                  \E level \in 0..3 :
                                    pushed[k].indent = active + 720 + level * 360
                             [] OTHER -> pushed[k].indent = active + offset(pushed[k])
       ]_vars


\* a heading of level 4 has set the indent to 360 and the list and the table
\* after it are laid out with 360
C9_Witness ==
  /\ pc = "done"
  /\ Len(elements) = 3
  /\ elements[1].type = "heading" /\ elements[1].level = 4
  /\ elements[2].type = "list" /\ elements[3].type = "table"
  /\ currentSectionIndent = 360
  /\ children[2].kind = "bullet" /\ children[2].indent = 360 + 720
  /\ children[Len(children)].kind = "table" /\ children[Len(children)].indent = 360

\* C10: the numbered lists of a document, in order, get the references
\* number-<k>-indent<i>, k = 1, 2, ... counting the numbered lists from the
\* start of the document without a reset and i the structural indent at the
\* list; main declares these references and convertElements uses them; two
\* numbered lists never have the same reference.
C10_NumberingReferences ==
  /\ numberConfigs = <<>>
  /\ [][LET numbered(n) == {k \in 1..n : elements[k].type = "list"
                                          /\ elements[k].listType = "number"}
            indentAt(n) ==
              LET headings == {k \in 1..n : elements[k].type = "heading"}
              IN  IF headings = {} THEN 0
                  ELSE IF elements[Max(headings)].level = 1 THEN 0 ELSE 360
            reference(n) ==
              <<"n", "u", "m", "b", "e", "r", "-">>
              \o toDecimal(Cardinality(numbered(n)))
              \o <<"-", "i", "n", "d", "e", "n", "t">> \o toDecimal(indentAt(n))
        IN  /\ (pc = "number" /\ pc' = "convert") =>
                 /\ Len(numberConfigs') = Cardinality(numbered(Len(elements)))
                 /\ \A n \in numbered(Len(elements)) :
                      numberConfigs'[Cardinality(numbered(n))].reference = reference(n)
                 /\ \A i, j \in 1..Len(numberConfigs') :
                      numberConfigs'[i].reference = numberConfigs'[j].reference => i = j
            /\ (pc = "convert" /\ ci' = ci + 1) =>
                 /\ numberListRef' = Cardinality(numbered(ci + 1))
                 /\ \A k \in (Len(children) + 1)..Len(children') :
                      children'[k].kind = "numbered" =>
                        /\ ci + 1 \in numbered(ci + 1)
                        /\ children'[k].reference = reference(ci + 1)
                        /\ \E c \in 1..Len(numberConfigs) :
                             numberConfigs[c].reference = children'[k].reference
       ]_vars

\* two numbered lists with a heading of level 2 between them: the references
\* are number-1-indent0 and number-2-indent360
C10_Witness ==
  /\ pc = "done"
  /\ Len(elements) = 3
  /\ elements[1].type = "list" /\ elements[1].listType = "number"
  /\ elements[2].type = "heading" /\ elements[2].level = 2
  /\ elements[3].type = "list" /\ elements[3].listType = "number"
  /\ [c \in 1..Len(numberConfigs) |-> numberConfigs[c].reference]
       = << <<"n", "u", "m", "b", "e", "r", "-", "1", "-", "i", "n", "d", "e", "n", "t",
              "0">>,
            <<"n", "u", "m", "b", "e", "r", "-", "2", "-", "i", "n", "d", "e", "n", "t",
              "3", "6", "0">> >>
  /\ children[1].kind = "numbered"
  /\ children[1].reference = numberConfigs[1].reference
  /\ children[Len(children) - 2].kind = "numbered"
  /\ children[Len(children) - 2].reference = numberConfigs[2].reference


\* C5: when convertElements lays out a rendered diagram of w x h pixels under
\* the section indent, with maxWidth = (CONTENT_WIDTH - indent) / 1440 * 96:
\* if w > maxWidth or h > 600 both sizes are multiplied by
\* min(maxWidth / w, 600 / h) and rounded; otherwise they are left as they
\* are; and in all cases the sizes laid out are at most w and h.  The
\* comparisons and roundings are stated on integers: maxWidth is
\* (CONTENT_WIDTH - indent) / 15, so w > maxWidth is 15 * w > CONTENT_WIDTH -
\* indent, maxWidth / w < 600 / h is (CONTENT_WIDTH - indent) * h < 9000 * w,
\* and a fraction n / d rounds to (2 * n + d) \div (2 * d).
C5_DiagramScaling ==
  [][(pc = "convert" /\ ci < Len(elements)
      /\ elements[ci + 1].type = "code" /\ elements[ci + 1].language = sMermaid
      /\ mapHas(renderedMap, elements[ci + 1].content)
      /\ ~renderedMap[elements[ci + 1].content].isNull)
     => LET data == renderedMap[elements[ci + 1].content].bytes
            isPng == Len(data) >= 24 /\ SubSeq(data, 1, 4) = <<137, 80, 78, 71>>
            w == IF isPng THEN readUInt32BE(data, 16) ELSE 600
            h == IF isPng THEN readUInt32BE(data, 20) ELSE 360
            m == 9026 - currentSectionIndent
            exceeded == 15 * w > m \/ h > 600
            byWidth == m * h < 9000 * w
            out == children'[Len(children')]
        IN  /\ Len(children') = Len(children) + 1
            /\ out.kind = "mermaid"
            /\ out.data = data
            /\ ~exceeded => out.width = w /\ out.height = h
            /\ exceeded /\ byWidth =>
                 /\ out.width = (2 * m + 15) \div 30
                 /\ out.height = (2 * m * h + 15 * w) \div (30 * w)
            /\ exceeded /\ ~byWidth =>
                 /\ out.width = (2 * 600 * w + h) \div (2 * h)
                 /\ out.height = 600
            /\ out.width <= w
            /\ out.height <= h]_vars

\* a run where a raster of 1200 x 2400, too wide and too tall, was laid out as
\* 300 x 600 under a heading of level 2
C5_Witness ==
  /\ pc = "done"
  /\ currentSectionIndent = 360
  /\ \E k \in 1..Len(children) :
       /\ children[k].kind = "mermaid"
       /\ children[k].data = Png(1200, 2400)
       /\ children[k].width = 300
       /\ children[k].height = 600


\* C11: a line that passes the bullet or numbered test of parse() and gives no
\* item of the list (a marker followed by white space only, an indented
\* numbered item) is emitted as the text of a paragraph, and the parser goes
\* on with a following line.
C11_MalformedListIsParagraph ==
  [][(pc = "parse" /\ pos < Len(lines)
      /\ blockKind(lines, pos) \in {"bullet", "number"}
      /\ ~topMatch(lines[pos + 1], blockKind(lines, pos))
      /\ ~nestedMatch(lines[pos + 1]))
     => /\ pos' > pos
        /\ Len(elements') = Len(elements) + 1
        /\ elements'[Len(elements')].type = "paragraph"
        /\ startsWith(elements'[Len(elements')].text, lines[pos + 1])]_vars


\* C12: a line that consists of <div style="page-break-before:always"></div>
\* gives a pagebreak element, as the line <pagebreak> does.
C12_DivPagebreak ==
  [][(pc = "parse" /\ pos < Len(lines) /\ lines[pos + 1] = lDivPagebreak)
     => /\ pos' = pos + 1
        /\ elements' = Append(elements, [type |-> "pagebreak"])]_vars

\* the text between the first start marker and the first end marker after it
firstIndex(s, p) == Min({i \in 1..Len(s) : MatchAt(s, p, i)})
afterStart(s) ==
  IF includesStr(s, lStart) THEN From(s, firstIndex(s, lStart) + Len(lStart)) ELSE s
beforeEnd(s) ==
  IF includesStr(s, lEnd) THEN SubSeq(s, 1, firstIndex(s, lEnd) - 1) ELSE s

\* the elements of a text: parse() run to its end
RECURSIVE parseAll(_, _, _)
parseAll(ls, p, els) ==
  IF p < Len(ls) THEN parseAll(ls, parse(ls, p, els).pos, parse(ls, p, els).elements)
  ELSE els

\* C14: the elements that parse() returns are those of the text between the
\* first start marker, when there is one, and the first end marker after it,
\* when there is one: nothing before the start marker, nothing from the end
\* marker on and neither marker gives an element.
C14_RangeControl ==
  pc = "prerender" =>
    elements = parseAll(split(beforeEnd(afterStart(markdownRaw)), NL), 0, <<>>)


\* C15: when parseArgs returns, the theme is one of blue, orange and green, it
\* is blue unless the command line names orange or green, and getThemeColors
\* gives for it the palette of one of the three themes, with a headerBorder,
\* a tableHeader and a mermaid value.
C15_ThemeFallback ==
  pc = "argsDone" =>
    /\ options[sTheme].chars \in {sBlue, sOrange, sGreen}
    /\ (\A i \in 1..Len(argv) : argv[i] \notin {sOrange, sGreen})
         => options[sTheme].chars = sBlue
    /\ getThemeColors(options[sTheme].chars)
         \in {THEME_COLORS[t] : t \in {sBlue, sOrange, sGreen}}
    /\ ~getThemeColors(options[sTheme].chars).headerBorder.isNull
    /\ ~getThemeColors(options[sTheme].chars).tableHeader.isNull
    /\ ~getThemeColors(options[sTheme].chars).mermaid.isNull

\* where the command line gives a value to the option key
cliAt(key) == {i \in 1..(Len(argv) - 1) : i % 2 = 0 /\ argv[i] = sDashes \o key}

\* the value of the option key by the order of precedence: the command line,
\* then the settings file, then the default
expectedOption(key) ==
  IF cliAt(key) # {} THEN Str(argv[Max(cliAt(key)) + 1])
  ELSE IF key \in DOMAIN configFile THEN configFile[key]
  ELSE IF key = sHrPagebreak THEN Str(sTrue)
  ELSE defaultOptions[key]

\* C16: when parseArgs returns, every option among title, subtitle, doctype,
\* version, date, dept, docnum, logo, company, theme and hr-pagebreak has the
\* value of the command line when it gives one, else the value of the
\* settings file when it defines the option, else the default (a theme that
\* is none of the three themes is left to the validation of the theme).
C16_OptionPrecedence ==
  pc = "argsDone" =>
    \A key \in ((DOMAIN defaultOptions) \ {sInput, sOutput}) \cup {sHrPagebreak} :
      (key = sTheme => expectedOption(key).chars \in {sBlue, sOrange, sGreen})
        => key \in DOMAIN options /\ options[key] = expectedOption(key)


\* C13: convertElements turns an hr element into a page break when the
\* hr-pagebreak option is true, as it is when neither the command line nor the
\* settings file gives it, and into a bordered paragraph without a page break
\* when the option is false.
C13_RuleIsPageBreak ==
  [][(pc = "convert" /\ ci < Len(elements) /\ elements[ci + 1].type = "hr")
     => children' = Append(children,
                           IF expectedOption(sHrPagebreak) = Str(sFalse)
                           THEN [kind |-> "hr", indent |-> currentSectionIndent]
                           ELSE [kind |-> "pagebreak"])]_vars

\* a line that opens a block other than a paragraph: one of the tests parse()
\* makes before it falls back to parseParagraph
opensBlock(ls, q) ==
  \/ startsWith(ls[q + 1], Fence)
  \/ pagebreakMatch(ls[q + 1])
  \/ headingMatch(ls[q + 1])
  \/ imageMatch(ls[q + 1])
  \/ imgTagMatch(ls[q + 1]).found
  \/ tableTest(ls, q)
  \/ bulletTest(ls[q + 1])
  \/ numberTest(ls[q + 1])
  \/ startsWith(ls[q + 1], <<">">>)
  \/ hrMatch(ls[q + 1])

\* the first line from p on that is blank or opens another block
paragraphEnd(ls, p) ==
  LET ends == {q \in p..(Len(ls) - 1) : isBlank(ls[q + 1]) \/ opensBlock(ls, q)}
  IN  IF ends = {} THEN Len(ls) ELSE Min(ends)

\* C17: where parse() falls back to parseParagraph and a paragraph is emitted,
\* the paragraph does not reach past the first blank line or line that opens
\* another block (fence, pagebreak tag, heading, image, img tag, table header
\* above a separator, bullet or numbered item at any indent, blockquote,
\* horizontal rule): the cursor stops on or before that line, and the text is
\* the lines taken, joined by one space.
C17_ParagraphStopsAtBlock ==
  [][(pc = "parse" /\ pos < Len(lines) /\ ~isBlank(lines[pos + 1])
      /\ ~opensBlock(lines, pos) /\ elements' # elements)
     => /\ pos' > pos
        /\ pos' <= paragraphEnd(lines, pos)
        /\ elements' =
             Append(elements,
                    [type |-> "paragraph",
                     text |-> join(SubSeq(lines, pos + 1, pos'), <<" ">>)])]_vars

\* the tests of parse() in the order in which parse() makes them, and the kind of element
\* each one stands for
orderedTests(ls, p) ==
  << isBlank(ls[p + 1]), startsWith(ls[p + 1], Fence), pagebreakMatch(ls[p + 1]),
     headingMatch(ls[p + 1]), imageMatch(ls[p + 1]), imgTagMatch(ls[p + 1]).found,
     tableTest(ls, p), bulletTest(ls[p + 1]), numberTest(ls[p + 1]),
     startsWith(ls[p + 1], <<">">>), hrMatch(ls[p + 1]), TRUE >>
orderedKinds ==
  << "none", "code", "pagebreak", "heading", "image", "image", "table", "bullet",
     "number", "blockquote", "hr", "paragraph" >>
firstTest(ls, p) == Min({k \in 1..12 : orderedTests(ls, p)[k]})
emittedKind(e) == IF e.type = "list" THEN e.listType ELSE e.type

RECURSIVE distinctInOrder(_, _)
distinctInOrder(srcs, seen) ==
  IF srcs = <<>> THEN <<>>
  ELSE IF srcs[1] \in seen THEN distinctInOrder(Tail(srcs), seen)
  ELSE <<srcs[1]>> \o distinctInOrder(Tail(srcs), seen \cup {srcs[1]})

\* the sources of the diagrams of the element sequence, in document order
diagramSources(els) ==
  LET isDiagram(e) == e.type = "code" /\ e.language = sMermaid
      ds == SelectSeq(els, isDiagram)
  IN  [k \in 1..Len(ds) |-> ds[k].content]

\* C19: rendering requests are strictly sequential. The requests made so far
\* are for the first distinct diagram sources of the element sequence, in the
\* order of their first occurrence; only the request made last can be
\* unresolved, and only while main awaits it, so that a request is made only
\* when every earlier one has resolved.
C19_SequentialRequests ==
  /\ Len(requests) <= Len(distinctInOrder(diagramSources(elements), {}))
  /\ \A k \in 1..Len(requests) :
       /\ requests[k].source = distinctInOrder(diagramSources(elements), {})[k]
       /\ ~requests[k].settled => (k = Len(requests) /\ pc = "await")

\* the request for a second source is outstanding; the first source has its
\* entry in the Map
C19_Witness ==
  /\ pc = "await"
  /\ Len(requests) = 2
  /\ requests[1].settled
  /\ ~requests[2].settled
  /\ requests[1].source # requests[2].source
  /\ requests[2].phase = "receiving"
  /\ mapHas(renderedMap, requests[1].source)

\* the request for source s has resolved, to bytes that the service sent or to
\* the failure marker
resolvedFor(s) ==
  \E k \in 1..Len(requests) :
    /\ requests[k].source = s
    /\ requests[k].settled
    /\ requests[k].value \in {Null} \cup {Buffer(body) : body \in kroki}

closingFences(ls, p) == {q \in (p + 1)..(Len(ls) - 1) : startsWith(ls[q + 1], Fence)}

\* C21: for a fenced code block that is closed, the content of the code
\* element is the lines strictly between the opening fence and the next line
\* that starts with the fence marker, joined by newlines, blank lines among
\* them kept; the language is the text after the opening fence, trimmed; and
\* the cursor is left on the line after the closing fence.
C21_CodeBlockContent ==
  [][(pc = "parse" /\ pos < Len(lines) /\ ~isBlank(lines[pos + 1])
      /\ startsWith(lines[pos + 1], Fence) /\ closingFences(lines, pos) # {})
     => LET close == Min(closingFences(lines, pos))
        IN  /\ pos' = close + 1
            /\ elements' =
                 Append(elements,
                        [type |-> "code",
                         language |-> trim(SubSeq(lines[pos + 1], 4, Len(lines[pos + 1]))),
                         content |-> join([k \in 1..(close - pos - 1) |-> lines[pos + 1 + k]],
                                          <<NL>>)])]_vars

\* a block with a language, a line of text and an empty line has been parsed
C21_Witness ==
  /\ pc = "parse"
  /\ lines = <<lFenceLang, lWord, lEmpty, lFence>>
  /\ pos = 4
  /\ elements = <<[type |-> "code", language |-> <<"j", "s">>, content |-> <<"x", NL>>]>>

\* the cells of a line of a table as the description gives them: the parts between
\* the '|', trimmed, without an empty first and an empty last part
expectedCells(line) ==
  LET raw == split(line, "|")
      cells == [k \in 1..Len(raw) |-> trim(raw[k])]
      first == IF cells[1] = <<>> THEN <<>> ELSE <<cells[1]>>
      last == IF cells[Len(cells)] = <<>> THEN <<>> ELSE <<cells[Len(cells)]>>
  IN  IF Len(cells) = 1 THEN first
      ELSE first \o SubSeq(cells, 2, Len(cells) - 1) \o last

\* C22: a table element has the cells of its header line as first row and the
\* cells of each following line that includes '|' as further rows, the second
\* line (the separator) left out; an empty first or last cell of a line is
\* dropped, the cells between are kept in place, empty or not; there is at
\* least one row.
C22_TableRows ==
  [][(pc = "parse" /\ pos < Len(lines) /\ Len(elements') = Len(elements) + 1
      /\ elements'[Len(elements')].type = "table")
     => LET rows == elements'[Len(elements')].rows
        IN  /\ SubSeq(elements', 1, Len(elements)) = elements
            /\ Len(rows) >= 1
            /\ Len(rows) = pos' - pos - 1
            /\ rows[1] = expectedCells(lines[pos + 1])
            /\ \A k \in 2..Len(rows) :
                 /\ includes(lines[pos + k + 1], "|")
                 /\ rows[k] = expectedCells(lines[pos + k + 1])
            /\ pos' < Len(lines) => ~includes(lines[pos' + 1], "|")]_vars

\* a header with outer delimiters and an empty inner cell, a separator and a
\* data line with a trailing delimiter have been parsed
C22_Witness ==
  /\ pc = "parse"
  /\ lines = <<lOuterPipes, lSeparator, lTrailingPipe, lWord>>
  /\ pos = 3
  /\ elements = <<[type |-> "table",
                   rows |-> << << <<"a">>, <<>>, <<"b">> >>, << <<"c">> >> >>]>>

\* a quoted line without its marker and without one white-space character
\* after the marker, if there is one
expectedQuoteText(line) ==
  IF Len(line) >= 2 /\ line[2] \in WS THEN SubSeq(line, 3, Len(line))
  ELSE SubSeq(line, 2, Len(line))

\* C23: a blockquote element takes the longest run of lines from the cursor on
\* that start with '>', each without its first '>' and without at most one
\* white-space character after it, joined by newlines; the cursor is left on
\* the first line that does not start with '>'.
C23_BlockquoteRun ==
  [][(pc = "parse" /\ pos < Len(lines) /\ Len(elements') = Len(elements) + 1
      /\ elements'[Len(elements')].type = "blockquote")
     => /\ SubSeq(elements', 1, Len(elements)) = elements
        /\ pos' > pos
        /\ \A q \in (pos + 1)..pos' : lines[q][1] = ">"
        /\ pos' < Len(lines) => (lines[pos' + 1] = <<>> \/ lines[pos' + 1][1] # ">")
        /\ elements'[Len(elements')].text
             = join([k \in 1..(pos' - pos) |-> expectedQuoteText(lines[pos + k])], <<NL>>)]_vars

\* quoted lines with no, one and two spaces after the marker have been parsed
C23_Witness ==
  /\ pc = "parse"
  /\ lines = <<lQuote, lQuoteSpace, lQuoteSpaces, lWord>>
  /\ pos = 3
  /\ elements = <<[type |-> "blockquote",
                   text |-> <<"q", NL, "q", NL, " ", "q">>]>>

\* the records of the lines of a block that can give one: the lines, trimmed,
\* that are not of the shape of a separator row (white space, '-', ':' and
\* '|' only) and have three cells or more
RECURSIVE recordsOf(_)
recordsOf(ls) ==
  IF ls = <<>> THEN <<>>
  ELSE LET line == trim(ls[1])
           cells == expectedCells(line)
       IN  (IF (\A k \in 1..Len(line) : line[k] \in SepChars) \/ Len(cells) < 3
            THEN <<>>
            ELSE <<[version |-> cells[1], date |-> cells[2], description |-> cells[3]]>>)
           \o recordsOf(Tail(ls))

\* a is b with some of its members left out
RECURSIVE isSubsequence(_, _)
isSubsequence(a, b) ==
  IF a = <<>> THEN TRUE
  ELSE IF b = <<>> THEN FALSE
  ELSE IF a[1] = b[1] THEN isSubsequence(Tail(a), Tail(b)) \/ isSubsequence(a, Tail(b))
  ELSE isSubsequence(a, Tail(b))

\* C24: the records that extractChangelog returns are, in the order of the
\* block, records of lines that are not of the shape of a separator row, with
\* outer '|' or without, and have at least three cells, each made of the
\* first three cells, trimmed; no separator row and no row of fewer than
\* three cells gives a record.
C24_ChangelogRecords ==
  pc = "changelogDone" =>
    \A ls \in SeqsUpTo(HistoryLines, MaxLines) :
      markdownRaw = historyBlock(ls) => isSubsequence(changelog.rows, recordsOf(ls))

\* the <img> tags of a text, and the runs of a paragraph that are red text
imageTagsIn(t) == Cardinality({i \in 1..Len(t) : MatchAtCI(t, sImg, i)})
redRuns(rs) == {k \in 1..Len(rs) : rs[k].type = "text" /\ rs[k].color = "FF0000"}

\* C25: an image whose file is missing or cannot be read does not stop the
\* conversion. Every element converted so far has given its paragraph, and at
\* the end every element has; the paragraph of a block image whose file is
\* not there or cannot be read is the placeholder paragraph; a paragraph has
\* one red placeholder run for each <img> tag of its text whose file is not
\* there or cannot be read, no image run, and the text after the last tag as
\* its last run.
C25_ImageFailureNotFatal ==
  pc \in {"convert", "done"} =>
    /\ Len(children) = ci
    /\ pc = "done" => ci = Len(elements)
    /\ \A k \in 1..ci :
         LET el == elements[k]
             p == children[k]
         IN  /\ (el.type = "image" /\ files[el.src] # "present")
                  => /\ p.kind = (IF files[el.src] = "absent" THEN "imageMissing"
                                  ELSE "imageError")
                     /\ p.src = el.src
             /\ (el.type = "paragraph" /\ files[<<"f">>] # "present")
                  => /\ Cardinality(redRuns(p.runs)) = imageTagsIn(el.text)
                     /\ \A j \in 1..Len(p.runs) : p.runs[j].type # "image"
                     /\ \A j \in redRuns(p.runs) :
                          p.runs[j].text = (IF files[<<"f">>] = "absent"
                                            THEN sImagePrefix \o <<"f", "]">>
                                            ELSE sImageError)
                     /\ el.text = <<"x", " ">> \o fImage \o <<" ", "y">>
                          => p.runs[Len(p.runs)] = TextRun(<<" ", "y">>, NoStyle, "")

\* the file cannot be read: the image line has given the placeholder
\* paragraph, and the paragraph after it a red run between its two plain runs
C25_Witness ==
  /\ pc = "done"
  /\ files[<<"f">>] = "unreadable"
  /\ Len(children) = 2
  /\ children[1].kind = "imageError"
  /\ children[2].kind = "paragraph"
  /\ children[2].runs = <<TextRun(<<"x", " ">>, NoStyle, ""),
                          TextRun(sImageError, NoStyle, "FF0000"),
                          TextRun(<<" ", "y">>, NoStyle, "")>>

\* the theme of the diagrams for the theme the command line selects: that of
\* the palette, the palette being the blue one for no theme and for a name
\* that is no theme
selectedDiagramTheme ==
  LET name == IF Len(argv) = 3 THEN argv[3] ELSE sBlue
  IN  IF name = sOrange THEN <<"n", "e", "u", "t", "r", "a", "l">>
      ELSE IF name = sGreen THEN <<"f", "o", "r", "e", "s", "t">>
      ELSE <<"d", "e", "f", "a", "u", "l", "t">>

\* "%%{init: {'theme': '<theme>'}}%%" and a line break
themeDirective(theme) ==
  <<"%", "%", "{", "i", "n", "i", "t", ":", " ", "{", "'", "t", "h", "e", "m", "e", "'",
    ":", " ", "'">> \o theme \o <<"'", "}", "}", "%", "%", NL>>

hasInitDirective(source) ==
  \E i \in 1..(Len(source) - 7) :
    SubSeq(source, i, i + 7) = <<"%", "%", "{", "i", "n", "i", "t", ":">>

\* C26: the body of a request is the theme directive of the selected theme
\* and then the source when the source holds no "%%{init:", and the source as
\* it is when it does; the Map is keyed by the sources as they stand in the
\* elements, each key holding what its request resolved to, and after the
\* rendering every mermaid code block has the entry of its own source, which
\* is what its paragraph embeds.
C26_ThemeDirectiveAndKeys ==
  /\ \A k \in 1..Len(requests) :
       requests[k].postData =
         (IF hasInitDirective(requests[k].source) THEN requests[k].source
          ELSE themeDirective(selectedDiagramTheme) \o requests[k].source)
  /\ \A key \in DOMAIN renderedMap :
       \E k \in 1..Len(requests) :
         /\ requests[k].source = key
         /\ requests[k].settled
         /\ renderedMap[key] = requests[k].value
  /\ pc \in {"number", "convert", "done"} =>
       \A j \in 1..Len(elements) :
         (elements[j].type = "code" /\ elements[j].language = sMermaid)
           => /\ elements[j].content \in DOMAIN renderedMap
              /\ (j <= ci /\ ~renderedMap[elements[j].content].isNull)
                   => /\ children[j].kind = "mermaid"
                      /\ children[j].data = renderedMap[elements[j].content].bytes

\* under the orange theme a source without a directive and one with its own
\* have been sent and embedded
C26_Witness ==
  /\ pc = "done"
  /\ Len(argv) = 3
  /\ argv[3] = sOrange
  /\ Len(requests) = 2
  /\ requests[1].source = <<"A">>
  /\ requests[1].postData = themeDirective(<<"n", "e", "u", "t", "r", "a", "l">>) \o <<"A">>
  /\ requests[2].source = sInit \o <<"x">>
  /\ requests[2].postData = sInit \o <<"x">>
  /\ children[1].kind = "mermaid"
  /\ children[2].kind = "mermaid"

\* C27: every iteration of the loop of MarkdownParser.parse moves the cursor
\* forward by at least one line, never back and never past the end of the
\* text, and leaves the elements emitted so far as they were, adding new
\* elements only at the end.
C27_ParseAdvances ==
  [][(pc = "parse" /\ pos < Len(lines))
     => /\ pos' > pos
        /\ pos' <= Len(lines)
        /\ Len(elements') >= Len(elements)
        /\ SubSeq(elements', 1, Len(elements)) = elements]_vars

\* no break tag, image tag or text pattern matches anywhere in s
noPattern(s) == \A k \in 1..Len(candidates(s)) : ~candidates(s)[k].found

\* the runs rs stand for the span c of the text, in its order: an optional
\* plain run with the text in front of the match, then one run for the match,
\* which is not empty; a styled run holds what stands between its delimiters
spanOf(c, rs) ==
  /\ Len(rs) \in {1, 2}
  /\ Len(rs) = 2 => /\ rs[1] = TextRun(rs[1].text, NoStyle, "")
                    /\ Len(rs[1].text) > 0
                    /\ startsWith(c, rs[1].text)
  /\ \E m \in {From(c, (IF Len(rs) = 2 THEN Len(rs[1].text) ELSE 0) + 1)} :
       /\ Len(m) > 0
       /\ CASE rs[Len(rs)].type = "break" -> MatchAtCI(m, <<"<", "b", "r">>, 1)
            [] rs[Len(rs)].type = "image" -> MatchAtCI(m, sImg, 1)
            [] rs[Len(rs)].type = "text" /\ rs[Len(rs)].color # "" -> MatchAtCI(m, sImg, 1)
            [] OTHER ->
                 \E k \in 1..Len(patterns) :
                   /\ m = patterns[k].delim \o rs[Len(rs)].text \o patterns[k].delim
                   /\ rs[Len(rs)].style = patterns[k].style

\* C28: parseInlineMarkup terminates: an iteration of its loop either cuts a
\* span that holds a match, which is not empty, off the front of the remaining
\* text and appends the runs of that span, or, when nothing matches, appends
\* the rest as one plain run and stops; so the remaining text gets shorter
\* with every iteration that does not stop, and the runs stand in the order
\* of their spans in the text. The step after the loop returns; the list
\* returned is never empty, and for a text without any pattern it is one
\* plain run with the whole text.
C28_InlineTerminates ==
  [][/\ (pc = "inline" /\ Len(remaining) > 0)
        => \/ /\ pc' = "inline"
              /\ Len(remaining') < Len(remaining)
              /\ remaining' = From(remaining, Len(remaining) - Len(remaining') + 1)
              /\ Len(runs') > Len(runs)
              /\ SubSeq(runs', 1, Len(runs)) = runs
              /\ spanOf(SubSeq(remaining, 1, Len(remaining) - Len(remaining')),
                        SubSeq(runs', Len(runs) + 1, Len(runs')))
           \/ /\ pc' = "inlineBreak"
              /\ noPattern(remaining)
              /\ remaining' = remaining
              /\ runs' = Append(runs, TextRun(remaining, NoStyle, ""))
     /\ (pc = "inlineBreak" \/ (pc = "inline" /\ Len(remaining) = 0))
        => /\ pc' = "inlineDone"
           /\ Len(runs') > 0
           /\ noPattern(text) => runs' = <<TextRun(text, NoStyle, "")>>]_vars

\* "a**b**" has given a plain run and a bold run, in this order
C28_Witness ==
  /\ pc = "inlineDone"
  /\ text = fPlain \o fDouble
  /\ runs = << TextRun(<<"a">>, NoStyle, ""),
               TextRun(<<"b">>, [NoStyle EXCEPT !.bold = TRUE], "") >>

\* the definitions of numberConfigs that a reference names
definedBy(ref) == {c \in 1..Len(numberConfigs) : numberConfigs[c].reference = ref}

\* C29: when convertElements lays out a numbered list, every item of level 0
\* becomes a paragraph whose numbering reference is the reference of exactly
\* one definition of the numberConfigs built in main, the one made for this
\* list, and the left indent of that definition is the structural indent
\* convertElements holds at the list plus 720; all items of level 0 of the
\* list share the reference, and no paragraph at all carries a reference
\* that numberConfigs does not define.
C29_PassesAgree ==
  [][(pc = "convert" /\ ci' = ci + 1)
     => LET el == elements[ci + 1]
            pushed == SubSeq(children', Len(children) + 1, Len(children'))
            numbered == {k \in 1..Len(pushed) : pushed[k].kind = "numbered"}
        IN  /\ numbered # {} => (el.type = "list" /\ el.listType = "number")
            /\ (el.type = "list" /\ el.listType = "number")
                 => Cardinality(numbered)
                      = Cardinality({i \in 1..Len(el.items) : el.items[i].level = 0})
            /\ \A k \in numbered :
                 /\ definedBy(pushed[k].reference) = {numberListRef'}
                 /\ numberConfigs[numberListRef'].left = currentSectionIndent + 720
                 /\ \A j \in numbered : pushed[j].reference = pushed[k].reference
    ]_vars

\* a numbered list under a heading of level 4: its two items of level 0 refer
\* to number-1-indent360, which is defined with the left indent 1080
C29_Witness ==
  /\ pc = "done"
  /\ Len(elements) = 2
  /\ elements[1].type = "heading" /\ elements[1].level = 4
  /\ elements[2].type = "list" /\ elements[2].listType = "number"
  /\ Len(numberConfigs) = 1
  /\ numberConfigs[1].reference = listRefOf(1, 360)
  /\ numberConfigs[1].left = 1080
  /\ children[2].kind = "numbered" /\ children[2].reference = numberConfigs[1].reference
  /\ children[3].kind = "numbered" /\ children[3].reference = numberConfigs[1].reference
  /\ currentSectionIndent = 360

\* C30: a diagram whose raster is at least 1 wide and 1 high is embedded, after
\* the scaling, with a width of at most
\* maxWidth = (CONTENT_WIDTH - currentSectionIndent) / 1440 * 96, a height of
\* at most 600, and a width and a height of at least 1.
C30_ScaledWithinLimits ==
  [][(pc = "convert" /\ ci < Len(elements)
      /\ elements[ci + 1].type = "code" /\ elements[ci + 1].language = sMermaid
      /\ mapHas(renderedMap, elements[ci + 1].content)
      /\ ~renderedMap[elements[ci + 1].content].isNull)
     => LET data == renderedMap[elements[ci + 1].content].bytes
            isPng == Len(data) >= 24 /\ SubSeq(data, 1, 4) = <<137, 80, 78, 71>>
            out == children'[Len(children')]
        IN  (isPng /\ readUInt32BE(data, 16) >= 1 /\ readUInt32BE(data, 20) >= 1)
              => /\ out.kind = "mermaid"
                 /\ out.width * 1440 <= (CONTENT_WIDTH - currentSectionIndent) * 96
                 /\ out.height <= 600
                 /\ out.width >= 1
                 /\ out.height >= 1]_vars

====
